---- MODULE Spec2Model ----
(***************************************************************************)
(* A TLA+ model of flashduty-runner: the permission checker                *)
(* (permission/permission.go), the workspace path resolver and the file    *)
(* operations that use it (workspace/workspace.go), and the session        *)
(* client, task handler and shutdown sequence (ws/client.go,               *)
(* ws/handler.go, cmd/main.go).                                            *)
(*                                                                         *)
(* Strings are sequences of one-character strings, so that prefix tests,   *)
(* suffix trimming and byte-wise ordering are computed, not assumed.       *)
(***************************************************************************)
EXTENDS Integers, Sequences, FiniteSets, TLC

VARIABLES
    \* ---- permission checker and Workspace.Bash ----
    permPc,        \* "new" before NewChecker ran, "ready" after
    patterns,      \* the pattern -> action map handed to NewChecker
    rules,         \* Checker.rules: the ordered rule table
    bashCmd,       \* the command of the last Bash call (NoCommand before any)
    bashErr,       \* the error the last Bash call returned (NoErr: nil)
    bashStarted,   \* TRUE iff the last Bash call started `bash -c`
    bashRes,       \* how `bash -c` ended and what executeBashCommand returned
    \* ---- file system and the workspace file operations ----
    fs,            \* the file system: absolute path -> [type, target]
    fsOp,          \* the last file operation ("none" before any)
    fsPath,        \* the caller path of the last file operation
    fsRet,         \* what safePath returned for it: [err, path]
    fsErr,         \* the error of the last file operation ("nil": none)
    fsReal,        \* the real locations the last operation read, wrote or listed
    \* ---- session client, task handler, shutdown sequence ----
    ctxDone,       \* the root context of runRunner is cancelled
    closed,        \* Client.closed; stopCh is closed exactly when it is TRUE
    conn,          \* Client.conn: 0 is nil, k the k-th dialled connection
    connState,     \* per connection: "unused", "open", "lost", "closed"
    doneEpoch,     \* which channel Client.doneCh currently names
    sendEpoch,     \* which channel Client.sendCh currently names
    doneClosed,    \* per doneCh channel: it has been closed
    sendCh,        \* per sendCh channel: the envelopes buffered in it
    envInfoSent,   \* Client.envInfoSent
    mainPc,        \* position of the main goroutine in RunWithReconnect
    attempt,       \* RunWithReconnect's count of consecutive failed dials
    runErr,        \* what RunWithReconnect returned ("none" while it runs)
    stopCloses,    \* how often close(c.stopCh) was executed
    nCloses,       \* calls of Client.Close made from outside the shutdown sequence
    delay,         \* RunWithReconnect's wait before the next dial, in seconds
    sl,            \* per Run: its sendLoop goroutine
    hb,            \* per Run: its heartbeatLoop goroutine
    ticks,         \* ticks the heartbeat tickers have delivered so far
    execs,         \* the task.request envelopes read so far and their goroutines
    runningTask,   \* Handler.runningTask: task id -> execution (0: no entry)
    taskWg,        \* Handler.taskWg: its counter
    cancels,       \* per task id: task.cancel handler goroutines spawned, not yet run
    nCancels,      \* task.cancel envelopes read so far
    sigPc,         \* position of the signal goroutine of runRunner
    wire,          \* per connection: the envelopes the peer received, in order
    \* ---- workspace helpers, configuration, tool-server sessions ----
    rd,            \* the last readFileContent call: its arguments and its outcome
    lw,           \* the bounded output writer, its buffer and its last Write call
    lo,           \* the last LargeOutputProcessor.Process call and what it returned
    zp,           \* the sync_skill call: its position in unzipSkill and what it wrote
    welcome,      \* per connection: how the read of its welcome frame in Connect ended
    writeFailed,  \* per connection: a write on it has failed while it was open
    mcp,          \* the tool-server ClientManager: its mutex, its session cache, its callers
    cfg,          \* the Config last validated and Validate's error
    mcpCalls,     \* the mcp.call goroutines, in the order readLoop started them
    sums,         \* what the files named .checksum hold, by location
    sessInfo,     \* the settings each caller asked for and each session was connected with, and the sessions closed
    web,          \* the webfetch call in progress
    lastWait      \* the time RunWithReconnect has waited since its last dial

permVars == <<permPc, patterns, rules, bashCmd, bashErr, bashStarted, bashRes>>
fsVars == <<fs, fsOp, fsPath, fsRet, fsErr, fsReal>>

connVars == <<ctxDone, closed, conn, connState, doneEpoch, sendEpoch,
              doneClosed, sendCh, envInfoSent, mainPc, attempt, delay, runErr, stopCloses, nCloses,
              sl, hb, ticks, wire>>
taskVars == <<execs, runningTask, taskWg, cancels, nCancels, sigPc>>
sessVars == <<connVars, taskVars>>

libVars == <<rd, lw, lo, zp, welcome, writeFailed, mcp, cfg, mcpCalls, sums, sessInfo, web, lastWait>>

vars == <<permVars, fsVars, sessVars, libVars>>

(***************************************************************************)
(* Bounds of the session model, and the state NewClient, NewHandler and    *)
(* runRunner leave before RunWithReconnect starts.                         *)
(***************************************************************************)
MaxConns == 2      \* connections the dialler establishes under SpecConn
TaskConns == 1     \* connections the dialler establishes under Spec
MaxExec == 2       \* task.request envelopes the peer sends
MaxCancels == 2    \* task.cancel envelopes the peer sends
MaxBeats == 1      \* ticks of the heartbeat tickers, all loops together
MaxFailures == 1   \* consecutive failed dials before the dialler gets through
MaxRetries == 11   \* the same, where the reconnect loop itself is examined
MaxDur == 121      \* the longest a process of the model runs, in seconds
MaxCloses == 2     \* calls of Client.Close beside the one of the shutdown sequence
SendChCap == 1     \* capacity of sendCh (100 in NewClient, scaled down)

maxReconnectAttempts == 10
initialReconnectDelay == 1
maxReconnectDelay == 300

Conns == 1..MaxConns
Chans == 1..(MaxConns + 1)
TaskIds == 1..MaxExec

NoLoop == [pc |-> "none", done |-> 0, send |-> 0, msg |-> <<>>]

NewClient ==
    /\ closed = FALSE
    /\ stopCloses = 0
    /\ conn = 0
    /\ connState = [k \in Conns |-> "unused"]
    /\ doneEpoch = 1
    /\ sendEpoch = 1
    /\ doneClosed = [c \in Chans |-> FALSE]
    /\ sendCh = [c \in Chans |-> <<>>]
    /\ envInfoSent = FALSE
    /\ sl = [k \in Conns |-> NoLoop]
    /\ hb = [k \in Conns |-> NoLoop]
    /\ ticks = 0
    /\ wire = [k \in Conns |-> <<>>]

NewHandler ==
    /\ execs = <<>>
    /\ runningTask = [t \in TaskIds |-> 0]
    /\ taskWg = 0
    /\ cancels = [t \in TaskIds |-> 0]
    /\ nCancels = 0

SessInit ==
    /\ NewClient
    /\ NewHandler
    /\ ctxDone = FALSE
    /\ mainPc = "loop"
    /\ attempt = 0
    /\ runErr = "none"
    /\ nCloses = 0
    /\ delay = initialReconnectDelay
    /\ sigPc = "idle"

(***************************************************************************)
(* Strings                                                                 *)
(***************************************************************************)

\* The characters used, in ascending byte order (Go compares strings bytewise).
Chars == <<" ", "$", "(", ")", "*", "-", ".", "/", "2", "a", "c", "d", "e", "f",
           "h", "i", "l", "m", "n", "o", "r", "s", "w">>

Code(c) == CHOOSE i \in 1..Len(Chars) : Chars[i] = c

\* strings.HasPrefix
HasPrefix(s, p) == Len(p) <= Len(s) /\ SubSeq(s, 1, Len(p)) = p

\* strings.HasSuffix
HasSuffix(s, p) == Len(p) <= Len(s) /\ SubSeq(s, Len(s) - Len(p) + 1, Len(s)) = p

\* strings.TrimSuffix: removes one trailing occurrence of p
TrimSuffix(s, p) == IF HasSuffix(s, p) THEN SubSeq(s, 1, Len(s) - Len(p)) ELSE s

\* strings.Contains for a one-character needle
Contains(s, c) == \E i \in 1..Len(s) : s[i] = c

\* Go's < on strings: bytewise lexicographic order
RECURSIVE StrLess(_, _)
StrLess(a, b) ==
    IF b = <<>> THEN FALSE
    ELSE IF a = <<>> THEN TRUE
    ELSE IF a[1] # b[1] THEN Code(a[1]) < Code(b[1])
    ELSE StrLess(Tail(a), Tail(b))

\* strings.ToLower on the action strings of the model
ToLower(a) ==
    CASE a = "ALLOW" -> "allow"
      [] a = "DENY"  -> "deny"
      [] OTHER       -> a

(***************************************************************************)
(* Permission checker: permission/permission.go                            *)
(***************************************************************************)

ActionAllow == "allow"
ActionDeny == "deny"

\* Action strings a configuration file can hold: the two documented ones, case
\* variants of them, and a value that is neither.
ActionStrings == {"allow", "deny", "ALLOW", "ask"}

\* "*", "ls *", "ls -l", "l* -l", "id", "e*"
P_star == <<"*">>
P_ls_any == <<"l", "s", " ", "*">>
P_ls_l == <<"l", "s", " ", "-", "l">>
P_mid == <<"l", "*", " ", "-", "l">>
P_id == <<"i", "d">>
P_e_any == <<"e", "*">>

PatternUniverse == {P_star, P_ls_any, P_ls_l, P_mid, P_id, P_e_any}

\* The largest number of entries of a pattern map.
MaxRules == 3

\* doublestar.Match on patterns whose only metacharacter is a single "*":
\* "*" matches any run of characters other than the separator "/".
RECURSIVE GlobMatch(_, _)
GlobMatch(p, s) ==
    IF p = <<>> THEN s = <<>>
    ELSE IF p[1] = "*"
         THEN \/ GlobMatch(Tail(p), s)
              \/ s # <<>> /\ s[1] # "/" /\ GlobMatch(p, Tail(s))
         ELSE s # <<>> /\ s[1] = p[1] /\ GlobMatch(Tail(p), Tail(s))

matchPattern(pattern, command) ==
    CASE pattern = <<"*">>          -> TRUE
      [] ~Contains(pattern, "*")    -> pattern = command
      [] HasSuffix(pattern, <<"*">>) -> HasPrefix(command, TrimSuffix(pattern, <<"*">>))
      [] OTHER                      -> GlobMatch(pattern, command)

\* sort.Strings, as an insertion sort
RECURSIVE SortInsert(_, _)
SortInsert(sorted, x) ==
    IF sorted = <<>> THEN <<x>>
    ELSE IF StrLess(x, sorted[1]) THEN <<x>> \o sorted
    ELSE <<sorted[1]>> \o SortInsert(Tail(sorted), x)

RECURSIVE SortStrings(_)
SortStrings(s) == IF s = <<>> THEN <<>> ELSE SortInsert(SortStrings(Tail(s)), s[1])

\* The orders in which `for pattern := range patterns` can yield the keys of a map.
IterationOrders(pats) ==
    {o \in [1..Cardinality(DOMAIN pats) -> DOMAIN pats] :
        \A i, j \in DOMAIN o : i # j => o[i] # o[j]}

RECURSIVE DropStar(_)
DropStar(o) ==
    IF o = <<>> THEN <<>>
    ELSE IF o[1] # P_star THEN <<o[1]>> \o DropStar(Tail(o)) ELSE DropStar(Tail(o))

\* A slip: the collected keys are returned in map iteration order.
getSortedPatternsUnsorted(pats, order) == DropStar(order)

getSortedPatterns(pats, order) == SortStrings(DropStar(order))

NewChecker(pats, order) ==
    LET star == IF P_star \in DOMAIN pats
                THEN <<[Pattern |-> P_star, Action |-> ToLower(pats[P_star])]>>
                ELSE <<>>
        otherPatterns == getSortedPatterns(pats, order)
    IN star \o [i \in 1..Len(otherPatterns) |->
                  [Pattern |-> otherPatterns[i],
                   Action |-> ToLower(pats[otherPatterns[i]])]]

\* A slip: the loop stops at the first matching rule.
RECURSIVE evaluateRulesFirstMatch(_, _)
evaluateRulesFirstMatch(rs, command) ==
    IF rs = <<>> THEN [action |-> ActionDeny, pattern |-> <<>>]
    ELSE IF matchPattern(rs[1].Pattern, command)
         THEN [action |-> rs[1].Action, pattern |-> rs[1].Pattern]
         ELSE evaluateRulesFirstMatch(Tail(rs), command)

RECURSIVE evaluateRulesFrom(_, _, _, _)
evaluateRulesFrom(rs, command, i, acc) ==
    IF i > Len(rs) THEN acc
    ELSE evaluateRulesFrom(rs, command, i + 1,
             IF matchPattern(rs[i].Pattern, command)
             THEN [action |-> rs[i].Action, pattern |-> rs[i].Pattern]
             ELSE acc)

evaluateRules(rs, command) ==
    evaluateRulesFrom(rs, command, 1, [action |-> ActionDeny, pattern |-> <<>>])

\* Errors: msg is the fixed part of the message, pattern and command its arguments.
NoErr == [msg |-> "nil", pattern |-> <<>>, command |-> <<>>]

denyError(matchedPattern, command) ==
    IF matchedPattern = <<>>
    THEN [msg |-> "command denied (no matching allow rule)", pattern |-> <<>>,
          command |-> command]
    ELSE [msg |-> "command denied by rule", pattern |-> matchedPattern,
          command |-> command]

\* The messages that contain the word "denied".
DeniedMsgs == {"command denied (no matching allow rule)", "command denied by rule"}

(***************************************************************************)
(* Commands.  A command is what syntax.Parser.Parse makes of the string:    *)
(* blank (empty after TrimSpace), unparseable, or a File holding a list of  *)
(* statements.  A node has a kind, the words of a call expression, the      *)
(* redirections of a statement and its child nodes in the order syntax.Walk *)
(* visits them.  A word is a literal or the command substitution $(...) of  *)
(* child number sub; sp is the number of blanks before it in the source     *)
(* text, which the parser drops.                                           *)
(***************************************************************************)

Lit(s) == [lit |-> s, sub |-> 0, sp |-> 1]
LitSp(s, n) == [lit |-> s, sub |-> 0, sp |-> n]
Subst(k) == [lit |-> <<>>, sub |-> k, sp |-> 1]

CallExpr(words, kids) == [kind |-> "CallExpr", op |-> "", words |-> words, redirs |-> <<>>, kids |-> kids]
Stmt(cmd) == [kind |-> "Stmt", op |-> "", words |-> <<>>, redirs |-> <<>>, kids |-> <<cmd>>]
RedirStmt(target) == [kind |-> "Stmt", op |-> "", words |-> <<>>, redirs |-> <<Lit(target)>>, kids |-> <<>>]
BinaryCmd(op, x, y) == [kind |-> "BinaryCmd", op |-> op, words |-> <<>>, redirs |-> <<>>, kids |-> <<x, y>>]
DeclClause(name) == [kind |-> "DeclClause", op |-> "", words |-> <<Lit(name)>>, redirs |-> <<>>, kids |-> <<>>]
TestClause(name) == [kind |-> "TestClause", op |-> "", words |-> <<Lit(name)>>, redirs |-> <<>>, kids |-> <<>>]

File(stmts) == [blank |-> FALSE, parses |-> TRUE, stmts |-> stmts]

W_ls == <<"l", "s">>
W_l == <<"-", "l">>
W_id == <<"i", "d">>
W_rm == <<"r", "m">>
W_rf == <<"-", "r", "f">>
W_slash == <<"/">>
W_echo == <<"e", "c", "h", "o">>
W_f == <<"f">>

Call_ls == CallExpr(<<Lit(W_ls)>>, <<>>)
Call_ls_l == CallExpr(<<Lit(W_ls), Lit(W_l)>>, <<>>)
Call_ls_l_spaced == CallExpr(<<Lit(W_ls), LitSp(W_l, 4)>>, <<>>)
Call_id == CallExpr(<<Lit(W_id)>>, <<>>)
Call_rm == CallExpr(<<Lit(W_rm), Lit(W_rf), Lit(W_slash)>>, <<>>)
Call_echo_id == CallExpr(<<Lit(W_echo), Subst(1)>>, <<Stmt(Call_id)>>)

Cmd_blank == [blank |-> TRUE, parses |-> TRUE, stmts |-> <<>>]            \* "" or "   "
Cmd_unparseable == [blank |-> FALSE, parses |-> FALSE, stmts |-> <<>>]    \* "ls ("
Cmd_ls == File(<<Stmt(Call_ls)>>)                                         \* "ls"
Cmd_ls_l == File(<<Stmt(Call_ls_l_spaced)>>)                              \* "ls    -l"
Cmd_id == File(<<Stmt(Call_id)>>)                                         \* "id"
Cmd_rm == File(<<Stmt(Call_rm)>>)                                         \* "rm -rf /"
Cmd_seq == File(<<Stmt(Call_ls_l), Stmt(Call_id)>>)                       \* "ls -l; id"
Cmd_and == File(<<Stmt(BinaryCmd("&&", Stmt(Call_ls_l), Stmt(Call_id)))>>) \* "ls -l && id"
Cmd_or == File(<<Stmt(BinaryCmd("||", Stmt(Call_id), Stmt(Call_rm)))>>)   \* "id || rm -rf /"
Cmd_pipe == File(<<Stmt(BinaryCmd("|", Stmt(Call_ls_l), Stmt(Call_id)))>>) \* "ls -l | id"
Cmd_subst == File(<<Stmt(Call_echo_id)>>)                                 \* "echo $(id)"
Cmd_redirect == File(<<RedirStmt(W_f)>>)                                  \* "> f"
Cmd_declare == File(<<Stmt(DeclClause(W_f))>>)                            \* "declare f"
Cmd_test == File(<<Stmt(TestClause(W_f))>>)                               \* "[[ -f f ]]"

Commands == {Cmd_blank, Cmd_unparseable, Cmd_ls, Cmd_ls_l, Cmd_id, Cmd_rm, Cmd_seq,
             Cmd_and, Cmd_or, Cmd_pipe, Cmd_subst, Cmd_redirect, Cmd_declare, Cmd_test}

NoCommand == [blank |-> TRUE, parses |-> FALSE, stmts |-> <<>>]

\* syntax.Printer.Print on a call expression, and on the statements inside a
\* command substitution: words separated by one blank, whatever the source had.
RECURSIVE PrintNode(_)
RECURSIVE PrintWords(_, _, _)
PrintWords(node, i, acc) ==
    IF i > Len(node.words) THEN acc
    ELSE LET w == node.words[i]
             text == IF w.sub = 0 THEN w.lit
                     ELSE <<"$", "(">> \o PrintNode(node.kids[w.sub]) \o <<")">>
         IN PrintWords(node, i + 1, IF i = 1 THEN text ELSE acc \o <<" ">> \o text)

PrintNode(node) ==
    CASE node.kind = "CallExpr" -> PrintWords(node, 1, <<>>)
      [] node.kind = "Stmt" -> IF node.kids = <<>> THEN <<>> ELSE PrintNode(node.kids[1])
      [] OTHER -> <<>>

nodeToString(node) == PrintNode(node)

\* The callback of syntax.Walk in Check, for one node: the error it sets, if any.
VisitNode(rs, node) ==
    IF node.kind = "CallExpr"
    THEN LET cmdStr == nodeToString(node)
             r == evaluateRules(rs, cmdStr)
         IN IF cmdStr # <<>> /\ r.action = ActionDeny
            THEN denyError(r.pattern, cmdStr)
            ELSE NoErr
    ELSE NoErr

\* syntax.Walk: preorder; once checkErr is set the callback returns false on
\* every later node, so neither its children nor anything else is evaluated.
RECURSIVE WalkNode(_, _, _)
RECURSIVE WalkNodes(_, _, _, _)
WalkNodes(rs, nodes, i, checkErr) ==
    IF i > Len(nodes) THEN checkErr
    ELSE WalkNodes(rs, nodes, i + 1, WalkNode(rs, nodes[i], checkErr))

WalkNode(rs, node, checkErr) ==
    IF checkErr # NoErr THEN checkErr
    ELSE LET e == VisitNode(rs, node)
         IN IF e # NoErr THEN e ELSE WalkNodes(rs, node.kids, 1, NoErr)

\* A slip: only the first statement of the file is checked.
CheckShallow(rs, command) ==
    IF command.blank THEN [msg |-> "empty command", pattern |-> <<>>, command |-> <<>>]
    ELSE IF ~command.parses
    THEN [msg |-> "failed to parse command", pattern |-> <<>>, command |-> <<>>]
    ELSE LET first == command.stmts[1].kids
         IN IF first = <<>> THEN NoErr ELSE WalkNode(rs, first[1], NoErr)

Check(rs, command) ==
    IF command.blank THEN [msg |-> "empty command", pattern |-> <<>>, command |-> <<>>]
    ELSE IF ~command.parses
    THEN [msg |-> "failed to parse command", pattern |-> <<>>, command |-> <<>>]
    ELSE WalkNodes(rs, command.stmts, 1, NoErr)

(***************************************************************************)
(* Paths and the file system.  A path is the sequence of its components,   *)
(* each a string; <<>> is "/".  PathStr is the string Go works on.          *)
(***************************************************************************)

N_w == <<"w">>          \* the workspace root directory, /w
N_w2 == <<"w", "2">>    \* a sibling of the root whose name begins with the root's
N_o == <<"o">>          \* a directory outside the workspace
N_d == <<"d">>
N_f == <<"f">>
N_l == <<"l">>
N_n == <<"n">>
DotDot == <<".", ".">>
Dot == <<".">>

root == <<N_w>>

RECURSIVE PathStr(_)
PathStr(p) == IF p = <<>> THEN <<>> ELSE <<"/">> \o p[1] \o PathStr(Tail(p))

Front(p) == SubSeq(p, 1, Len(p) - 1)
Last(p) == p[Len(p)]

\* filepath.Abs(filepath.Join(w.root, path)): the lexical Clean of root/path
RECURSIVE CleanFrom(_, _)
CleanFrom(acc, rest) ==
    IF rest = <<>> THEN acc
    ELSE IF rest[1] = Dot THEN CleanFrom(acc, Tail(rest))
    ELSE IF rest[1] = DotDot
         THEN CleanFrom(IF acc = <<>> THEN <<>> ELSE Front(acc), Tail(rest))
    ELSE CleanFrom(Append(acc, rest[1]), Tail(rest))

JoinAbs(base, path) == CleanFrom(<<>>, base \o path)

DirEntry == [type |-> "dir", target |-> <<>>]
RegularFile == [type |-> "file", target |-> <<>>]
Link(target) == [type |-> "link", target |-> target]

Exists(f, p) == p = <<>> \/ p \in DOMAIN f
TypeOf(f, p) == IF p = <<>> THEN "dir" ELSE f[p].type

LinkCount(f) == Cardinality({p \in DOMAIN f : f[p].type = "link"})

\* The kernel's path walk: every symlink on the way is followed, the last
\* component too.  err is "nil", "ENOENT", "ENOTDIR" or "ELOOP".
RECURSIVE ResolveFrom(_, _, _, _)
ResolveFrom(f, cur, rest, fuel) ==
    IF rest = <<>> THEN [err |-> "nil", path |-> cur]
    ELSE LET next == Append(cur, rest[1])
         IN IF TypeOf(f, cur) # "dir" THEN [err |-> "ENOTDIR", path |-> cur]
            ELSE IF ~Exists(f, next) THEN [err |-> "ENOENT", path |-> next]
            ELSE IF f[next].type = "link"
                 THEN IF fuel = 0 THEN [err |-> "ELOOP", path |-> next]
                      ELSE ResolveFrom(f, <<>>, f[next].target \o Tail(rest), fuel - 1)
            ELSE ResolveFrom(f, next, Tail(rest), fuel)

\* filepath.EvalSymlinks
EvalSymlinks(f, p) == ResolveFrom(f, <<>>, p, LinkCount(f))

\* os.Lstat: the directory part is resolved, the last component is not followed
Lstat(f, p) ==
    IF p = <<>> THEN [err |-> "nil", path |-> <<>>]
    ELSE LET parent == EvalSymlinks(f, Front(p))
         IN IF parent.err # "nil" THEN parent
            ELSE IF TypeOf(f, parent.path) # "dir" THEN [err |-> "ENOTDIR", path |-> parent.path]
            ELSE IF ~Exists(f, Append(parent.path, Last(p)))
                 THEN [err |-> "ENOENT", path |-> Append(parent.path, Last(p))]
            ELSE [err |-> "nil", path |-> Append(parent.path, Last(p))]

PathOk(p) == [err |-> "nil", path |-> p]
PathErr(e) == [err |-> e, path |-> <<>>]

\* Workspace.safePath
safePath(f, path) ==
    LET absPath == JoinAbs(root, path)
    IN IF ~HasPrefix(PathStr(absPath), PathStr(root))
       THEN PathErr("path is outside workspace root")
       ELSE IF Lstat(f, absPath).err = "nil"
       THEN LET real == EvalSymlinks(f, absPath)
                rr == EvalSymlinks(f, root)
                realRoot == IF rr.err # "nil" THEN root ELSE rr.path
            IN IF real.err = "ENOENT" THEN PathOk(absPath)
               ELSE IF real.err # "nil" THEN PathErr("failed to resolve symlinks")
               ELSE IF ~HasPrefix(PathStr(real.path), PathStr(realRoot))
                    THEN PathErr("path escapes workspace root via symlink")
               ELSE PathOk(real.path)
       ELSE PathOk(absPath)

\* os.MkdirAll: [err, fs], fs the file system afterwards
RECURSIVE MkdirAll(_, _)
MkdirAll(f, p) ==
    LET st == EvalSymlinks(f, p)
    IN IF st.err = "nil"
       THEN [err |-> IF TypeOf(f, st.path) = "dir" THEN "nil" ELSE "ENOTDIR", fs |-> f]
       ELSE IF p = <<>> THEN [err |-> "nil", fs |-> f]
       ELSE LET up == MkdirAll(f, Front(p))
                parent == EvalSymlinks(up.fs, Front(p))
                target == Append(parent.path, Last(p))
            IN IF up.err # "nil" THEN up
               ELSE IF Exists(up.fs, target) THEN [err |-> "EEXIST", fs |-> up.fs]
               ELSE [err |-> "nil", fs |-> (target :> DirEntry) @@ up.fs]

\* open(2) with O_WRONLY|O_CREATE|O_TRUNC, as os.WriteFile does: [err, path, fs],
\* path the real location of the file written
RECURSIVE OpenCreate(_, _, _)
OpenCreate(f, p, fuel) ==
    IF p = <<>> THEN [err |-> "EISDIR", path |-> <<>>, fs |-> f]
    ELSE LET parent == EvalSymlinks(f, Front(p))
             target == Append(parent.path, Last(p))
         IN IF parent.err # "nil" THEN [err |-> parent.err, path |-> <<>>, fs |-> f]
            ELSE IF TypeOf(f, parent.path) # "dir"
                 THEN [err |-> "ENOTDIR", path |-> <<>>, fs |-> f]
            ELSE IF ~Exists(f, target)
                 THEN [err |-> "nil", path |-> target, fs |-> (target :> RegularFile) @@ f]
            ELSE IF f[target].type = "link"
                 THEN IF fuel = 0 THEN [err |-> "ELOOP", path |-> <<>>, fs |-> f]
                      ELSE OpenCreate(f, f[target].target, fuel - 1)
            ELSE IF f[target].type = "dir"
                 THEN [err |-> "EISDIR", path |-> <<>>, fs |-> f]
            ELSE [err |-> "nil", path |-> target, fs |-> f]

WriteFile(f, p) == OpenCreate(f, p, LinkCount(f))

\* The body shared by Workspace.Write and Workspace.WriteRaw, after decoding:
\* [err, fs, real], real the locations created or overwritten
WriteAt(f, path) ==
    LET sp == safePath(f, path)
        md == MkdirAll(f, Front(sp.path))
        wf == WriteFile(md.fs, sp.path)
        made == DOMAIN md.fs \ DOMAIN f
    IN IF sp.err # "nil" THEN [err |-> sp.err, fs |-> f, real |-> {}]
       ELSE IF sp.path = <<>> THEN [err |-> "EISDIR", fs |-> f, real |-> {}]
       ELSE IF md.err # "nil"
            THEN [err |-> "failed to create directory", fs |-> md.fs, real |-> made]
       ELSE IF wf.err # "nil" THEN [err |-> wf.err, fs |-> md.fs, real |-> made]
       ELSE [err |-> "nil", fs |-> wf.fs, real |-> made \cup {wf.path}]

\* Workspace.Read: [err, real]
ReadAt(f, path) ==
    LET sp == safePath(f, path)
        st == EvalSymlinks(f, sp.path)
    IN IF sp.err # "nil" THEN [err |-> sp.err, real |-> {}]
       ELSE IF st.err # "nil" THEN [err |-> "failed to stat file", real |-> {}]
       ELSE IF TypeOf(f, st.path) = "dir" THEN [err |-> "cannot read a directory", real |-> {}]
       ELSE [err |-> "nil", real |-> {st.path}]

\* Workspace.List: filepath.Walk lstats its root and lists it
ListAt(f, path) ==
    LET sp == safePath(f, path)
        st == Lstat(f, sp.path)
    IN IF sp.err # "nil" THEN [err |-> sp.err, real |-> {}]
       ELSE IF st.err # "nil" THEN [err |-> "failed to list directory", real |-> {}]
       ELSE [err |-> "nil", real |-> {st.path}]

\* ---- the file systems and caller paths explored ----

BaseFs ==
    (<<N_w>> :> DirEntry) @@ (<<N_w, N_d>> :> DirEntry) @@ (<<N_w, N_d, N_f>> :> RegularFile)
    @@ (<<N_w, N_f>> :> RegularFile)
    @@ (<<N_w2>> :> DirEntry) @@ (<<N_w2, N_f>> :> RegularFile)
    @@ (<<N_o>> :> DirEntry) @@ (<<N_o, N_f>> :> RegularFile)

\* What /w/l points to: a directory inside, a file inside, a directory outside,
\* a file outside, a missing file outside, the sibling directory.
LinkTargets == {<<N_w, N_d>>, <<N_w, N_f>>, <<N_o>>, <<N_o, N_f>>, <<N_o, N_n>>, <<N_w2>>}

PathComponents == {DotDot, N_d, N_f, N_l, N_n, N_w2}

\* The longest caller path, in components.
MaxPathLen == 3

\* The most entries the file system grows to.
MaxEntries == 10

CallerPaths ==
    {<<>>, <<Dot>>} \cup UNION {[1..n -> PathComponents] : n \in 1..MaxPathLen}

NoRet == [err |-> "none", path |-> <<>>]

FsInit ==
    /\ fs \in {(<<N_w, N_l>> :> Link(t)) @@ BaseFs : t \in LinkTargets}
    /\ fsOp = "none"
    /\ fsPath = <<>>
    /\ fsRet = NoRet
    /\ fsErr = "nil"
    /\ fsReal = {}

Read(path) ==
    LET r == ReadAt(fs, path)
    IN /\ fsOp = "none"
       /\ fsOp' = "read"
       /\ fsPath' = path
       /\ fsRet' = safePath(fs, path)
       /\ fsErr' = r.err
       /\ fsReal' = r.real
       /\ UNCHANGED fs

Write(path) ==
    LET r == WriteAt(fs, path)
    IN /\ fsOp = "none"
       /\ Cardinality(DOMAIN fs) < MaxEntries
       /\ fsOp' = "write"
       /\ fsPath' = path
       /\ fsRet' = safePath(fs, path)
       /\ fsErr' = r.err
       /\ fsReal' = r.real
       /\ fs' = r.fs

WriteRaw(path) ==
    LET r == WriteAt(fs, path)
    IN /\ fsOp = "none"
       /\ Cardinality(DOMAIN fs) < MaxEntries
       /\ fsOp' = "WriteRaw"
       /\ fsPath' = path
       /\ fsRet' = safePath(fs, path)
       /\ fsErr' = r.err
       /\ fsReal' = r.real
       /\ fs' = r.fs

List(path) ==
    LET r == ListAt(fs, path)
    IN /\ fsOp = "none"
       /\ fsOp' = "list"
       /\ fsPath' = path
       /\ fsRet' = safePath(fs, path)
       /\ fsErr' = r.err
       /\ fsReal' = r.real
       /\ UNCHANGED fs

\* The operation's result has been handed to the caller; the next one may start.
FsReturn ==
    /\ fsOp # "none"
    /\ fsOp' = "none"
    /\ fsPath' = <<>>
    /\ fsRet' = NoRet
    /\ fsErr' = "nil"
    /\ fsReal' = {}
    /\ UNCHANGED fs

(***************************************************************************)
(* executeBashCommand (workspace/workspace.go).  The process `bash -c`     *)
(* starts is described by whether it can be started, how many seconds it   *)
(* runs when left alone and the status it then exits with.  Times are in   *)
(* seconds.                                                                *)
(***************************************************************************)
defaultTimeout == 120

\* Workspace.resolveTimeout
resolveTimeout(timeoutSec) == IF timeoutSec > 0 THEN timeoutSec ELSE defaultTimeout

\* The timeout arguments of the model: negative, absent (0), 2 s.
TimeoutArgs == {-1, 0, 2}

\* The running times of the model.
Durations == {1, 2, defaultTimeout, MaxDur}

Procs == [starts : BOOLEAN, dur : Durations, code : {0, 1}]

QuickProc == [starts |-> TRUE, dur |-> 1, code |-> 0]

\* How cmd.Run ends under context.WithTimeout(ctx, timeout).  A process that
\* cannot be started fails at once.  One that ends before the deadline
\* exits on its own.  One that is still running at the deadline is killed
\* (exec.CommandContext calls os.Process.Kill).  One that ends at the
\* deadline exits on its own, or is killed, or has exited when the kill
\* reaches it ("late").
Fates(proc, timeout) ==
    IF ~proc.starts THEN {"startFail"}
    ELSE IF proc.dur < timeout THEN {"exited"}
    ELSE IF proc.dur > timeout THEN {"killed"}
    ELSE {"exited", "killed", "late"}

\* The error cmd.Run returns and ctx.Err() at that moment.  Cmd.Wait
\* reports a process that did not end with status 0 as *exec.ExitError,
\* whose ExitCode() is -1 for a process ended by a signal; only when the
\* process ended with status 0 does it report the error of the context.
RunOutcome(proc, fate) ==
    CASE fate = "startFail" ->
            [err |-> "other", exitCode |-> 0, ctxErr |-> "nil"]
      [] fate = "exited" ->
            [err |-> IF proc.code = 0 THEN "nil" ELSE "ExitError",
             exitCode |-> proc.code, ctxErr |-> "nil"]
      [] fate = "killed" ->
            [err |-> "ExitError", exitCode |-> -1, ctxErr |-> "DeadlineExceeded"]
      [] fate = "late" ->
            [err |-> IF proc.code = 0 THEN "DeadlineExceeded" ELSE "ExitError",
             exitCode |-> proc.code, ctxErr |-> "DeadlineExceeded"]

NoRes == [timeout |-> 0, fate |-> "none", ret |-> "none", exit |-> 0, stderr |-> "none"]

\* Workspace.executeBashCommand: the result or the error it returns, with
\* the timeout it ran under and the way cmd.Run ended.  stderr "process" is
\* what the process wrote.
executeBashCommand(proc, timeout, fate) ==
    LET o == RunOutcome(proc, fate)
        r == IF o.err = "nil"
                THEN [ret |-> "result", exit |-> 0, stderr |-> "process"]
             ELSE IF o.err = "ExitError"
                THEN [ret |-> "result", exit |-> o.exitCode, stderr |-> "process"]
             ELSE IF o.ctxErr = "DeadlineExceeded"
                THEN [ret |-> "result", exit |-> 124, stderr |-> "command timed out"]
             ELSE [ret |-> "error", exit |-> 0,
                   stderr |-> "failed to execute command"]
    IN [timeout |-> timeout, fate |-> fate, ret |-> r.ret, exit |-> r.exit,
        stderr |-> r.stderr]

(***************************************************************************)
(* Workspace.readFileContent.  int64 is scaled down to IntBits bits, two's *)
(* complement, so that offset + limit can leave the range with small       *)
(* numbers; a file of n bytes holds the bytes 1, 2, .., n.                 *)
(***************************************************************************)
IntBits == 4
MinInt == -(2 ^ (IntBits - 1))
MaxInt == (2 ^ (IntBits - 1)) - 1
Ints == MinInt..MaxInt

\* The sizes of the files read.
MaxFileSize == 3

\* The longest slice make() allocates; a longer one panics with "makeslice:
\* len out of range" (2^48 bytes against an int64 of 2^63, scaled down).
MaxAlloc == 4

\* Go's integer addition: the sum modulo 2^IntBits.
WrapInt(x) == ((x - MinInt) % (2 ^ IntBits)) + MinInt

Min(a, b) == IF a < b THEN a ELSE b

FileBytes(size) == [i \in 1..size |-> i]

\* The n bytes of b from (zero-based) position from on.
SubBytes(b, from, n) == [i \in 1..n |-> b[from + i]]

NoRead ==
    [size |-> 0, offset |-> 0, limit |-> 0, ret |-> "none", content |-> <<>>,
     total |-> 0]

\* readFileContent(path, size, offset, limit) on a file that opens and holds
\* size bytes: what it returns, or the panic of make([]byte, limit).
readFileContent(size, offset, limit) ==
    LET off == IF offset < 0 THEN 0 ELSE offset
        lim == IF limit <= 0 \/ WrapInt(off + limit) > size
                 THEN WrapInt(size - off) ELSE limit
        n == Min(lim, size - off)
    IN IF off >= size
         THEN [ret |-> "result", content |-> <<>>, total |-> size]
       ELSE IF lim > MaxAlloc
         THEN [ret |-> "panic", content |-> <<>>, total |-> 0]
       ELSE [ret |-> "result", content |-> SubBytes(FileBytes(size), off, n),
             total |-> size]

\* A read of a file of size bytes with the arguments offset and limit.
ReadFileContent(size, offset, limit) ==
    /\ rd' = [size |-> size, offset |-> offset, limit |-> limit] @@
              readFileContent(size, offset, limit)
    /\ UNCHANGED <<permVars, fsVars, sessVars, lw, lo, zp, welcome, writeFailed, mcp, cfg, mcpCalls, sums, sessInfo, web, lastWait>>

(***************************************************************************)
(* LimitedWriter over the strings.Builder that executeBashCommand gives it. *)
(***************************************************************************)
\* The byte limit of the writer (10 MiB in executeBashCommand, scaled down).
maxOutputSize == 3

\* The longest slice a Write call is given, the most bytes offered to one
\* writer and the most Write calls made on it.
MaxChunk == 2
MaxOffered == 5
MaxWrites == 4

Bytes == {1, 2}
Chunks == UNION {[1..n -> Bytes] : n \in 0..MaxChunk}

\* strings.Builder.Write: appends p, returns len(p) and a nil error.
BuilderWrite(buf, p) == [buf |-> buf \o p, n |-> Len(p), err |-> "nil"]

\* The writer before its first Write: an empty builder, curr = 0.
NoWriter ==
    [buf |-> <<>>, curr |-> 0, offered |-> <<>>, calls |-> 0, n |-> 0,
     err |-> "nil", plen |-> 0]

\* A slip: Write reports the count of the bytes it kept.
LimitedWriterWriteShort(l, p) ==
    IF l.curr >= maxOutputSize
      THEN [buf |-> l.buf, curr |-> l.curr, n |-> 0, err |-> "nil"]
    ELSE LET left == maxOutputSize - l.curr
             w == IF Len(p) > left THEN BuilderWrite(l.buf, SubSeq(p, 1, left))
                                   ELSE BuilderWrite(l.buf, p)
         IN [buf |-> w.buf, curr |-> l.curr + w.n, n |-> w.n, err |-> w.err]

\* LimitedWriter.Write(p) on the writer l: the builder and curr after it,
\* and the n and err it returns.
LimitedWriterWrite(l, p) ==
    IF l.curr >= maxOutputSize
      THEN [buf |-> l.buf, curr |-> l.curr, n |-> Len(p), err |-> "nil"]
    ELSE LET left == maxOutputSize - l.curr
         IN IF Len(p) > left
              THEN LET w == BuilderWrite(l.buf, SubSeq(p, 1, left))
                   IN [buf |-> w.buf, curr |-> l.curr + w.n, n |-> Len(p),
                       err |-> w.err]
            ELSE LET w == BuilderWrite(l.buf, p)
                 IN [buf |-> w.buf, curr |-> l.curr + w.n, n |-> w.n,
                     err |-> w.err]

\* The subprocess writes the chunk p to its pipe and os/exec hands it to
\* the writer.
WriteChunk(p) ==
    /\ lw.calls < MaxWrites
    /\ Len(lw.offered) + Len(p) <= MaxOffered
    /\ lw' = [offered |-> lw.offered \o p, calls |-> lw.calls + 1,
              plen |-> Len(p)] @@ LimitedWriterWrite(lw, p)
    /\ UNCHANGED <<permVars, fsVars, sessVars, rd, lo, zp, welcome, writeFailed, mcp, cfg, mcpCalls, sums, sessInfo, web, lastWait>>

(***************************************************************************)
(* LargeOutputProcessor (workspace/large_output.go), with the default      *)
(* configuration scaled down.  A content is a string over "a" and "\n".    *)
(***************************************************************************)
DefaultMaxOutputSize == 3   \* 30000
DefaultPreviewSize == 2     \* 8000
DefaultPreviewLines == 2    \* 20

\* The longest content processed.
MaxContent == 5

NL == "\n"
Contents == UNION {[1..n -> {"a", NL}] : n \in 0..MaxContent}

N_work == <<".", "w", "o", "r", "k">>
N_outputs == <<"o", "u", "t", "p", "u", "t", "s">>
N_txt == <<"b", ".", "t", "x", "t">>     \* <prefix>_<id>_<unix time>.txt

OutputsDir == <<N_work, N_outputs>>

\* strings.Split(s, "\n"), from position i on, cur the line being read.
RECURSIVE SplitFrom(_, _, _)
SplitFrom(s, i, cur) ==
    IF i > Len(s) THEN <<cur>>
    ELSE IF s[i] = NL THEN <<cur>> \o SplitFrom(s, i + 1, <<>>)
    ELSE SplitFrom(s, i + 1, Append(cur, s[i]))

Split(s) == SplitFrom(s, 1, <<>>)

\* strings.Join(lines, "\n")
RECURSIVE Join(_)
Join(lines) ==
    IF lines = <<>> THEN <<>>
    ELSE IF Len(lines) = 1 THEN lines[1]
    ELSE lines[1] \o <<NL>> \o Join(Tail(lines))

NoMsg ==
    [chars |-> 0, lines |-> 0, note |-> "", path |-> <<>>, previewLines |-> 0,
     preview |-> <<>>, marker |-> FALSE, readMore |-> FALSE]

\* truncateContent: the parts of the text it builds.  preview is the text
\* taken from the content; marker says that "\n... [preview truncated]"
\* follows it.
truncateContent(content, filePath) ==
    LET lines == Split(content)
        totalLines == Len(lines)
        previewLines == Min(DefaultPreviewLines, totalLines)
        preview == Join(SubSeq(lines, 1, previewLines))
        long == Len(preview) > DefaultPreviewSize
    IN [chars |-> Len(content), lines |-> totalLines,
        note |-> IF filePath # <<>> THEN "Full content saved to"
                 ELSE "Could not save full content.",
        path |-> filePath, previewLines |-> previewLines,
        preview |-> IF long THEN SubSeq(preview, 1, DefaultPreviewSize) ELSE preview,
        marker |-> long, readMore |-> filePath # <<>>]

NoFile == [path |-> <<>>, data |-> <<>>]

NoOutput ==
    [arg |-> <<>>, ret |-> "none", content |-> <<>>, msg |-> NoMsg,
     truncated |-> FALSE, filePath |-> <<>>, total |-> 0, file |-> NoFile]

\* Process(ctx, content, prefix) on the file system f: the file system
\* afterwards, the ProcessResult (content: the Content of a result that is
\* not truncated, msg: the one of a truncated result) and the file that
\* WriteRaw wrote (its real location and its bytes).
Process(f, content) ==
    IF Len(content) <= DefaultMaxOutputSize
      THEN [fs |-> f, ret |-> "result", content |-> content, msg |-> NoMsg,
            truncated |-> FALSE, filePath |-> <<>>, total |-> Len(content),
            file |-> NoFile]
    ELSE LET filePath == OutputsDir \o <<N_txt>>
             w == WriteAt(f, filePath)
         IN IF w.err # "nil"
              THEN [fs |-> w.fs, ret |-> "result", content |-> <<>>,
                    msg |-> truncateContent(content, <<>>), truncated |-> TRUE,
                    filePath |-> <<>>, total |-> Len(content), file |-> NoFile]
            ELSE [fs |-> w.fs, ret |-> "result", content |-> <<>>,
                  msg |-> truncateContent(content, filePath), truncated |-> TRUE,
                  filePath |-> filePath, total |-> Len(content),
                  file |-> [path |-> CHOOSE q \in w.real : TypeOf(w.fs, q) = "file",
                            data |-> content]]

\* A Process call on the output content.
ProcessCall(content) ==
    LET r == Process(fs, content)
    IN /\ lo.ret = "none"
       /\ fs' = r.fs
       /\ lo' = [arg |-> content, ret |-> r.ret, content |-> r.content,
                 msg |-> r.msg, truncated |-> r.truncated,
                 filePath |-> r.filePath, total |-> r.total, file |-> r.file]
       /\ UNCHANGED <<fsOp, fsPath, fsRet, fsErr, fsReal>>
       /\ UNCHANGED <<permVars, sessVars, rd, lw, zp, welcome, writeFailed, mcp, cfg, mcpCalls, sums, sessInfo, web, lastWait>>

\* The caller has the result; the next output may come.
ProcessReturn ==
    /\ lo.ret # "none"
    /\ lo' = NoOutput
    /\ UNCHANGED <<permVars, fsVars, sessVars, rd, lw, zp, welcome, writeFailed, mcp, cfg, mcpCalls, sums, sessInfo, web, lastWait>>

\* The workspaces of the model: nothing at .work, .work/outputs in place,
\* .work a regular file, .work a symlink to a directory outside the root,
\* .work/outputs such a symlink.
OutputFs ==
    {BaseFs,
     (root \o OutputsDir :> DirEntry) @@ (root \o <<N_work>> :> DirEntry) @@ BaseFs,
     (root \o <<N_work>> :> RegularFile) @@ BaseFs,
     (root \o <<N_work>> :> Link(<<N_o>>)) @@ BaseFs,
     (root \o OutputsDir :> Link(<<N_o>>)) @@ (root \o <<N_work>> :> DirEntry) @@ BaseFs}

(***************************************************************************)
(* Workspace.SyncSkill and unzipSkill.  An archive entry is a name (its    *)
(* components, and whether it begins with "/") and whether it is a         *)
(* directory entry; the archive is read entry by entry.                    *)
(***************************************************************************)
N_a == <<"a">>
N_d2 == <<"d", "2">>            \* a sibling of d whose name begins with d's
N_ddf == <<".", ".", "f">>      \* a file name that begins with two dots
N_checksum == <<".", "c">>      \* .checksum

\* The longest entry name, in components, and the most entries unpacked.
MaxNameLen == 3
MaxArchive == 2

NameComponents == {DotDot, N_a, N_d2, N_ddf}

ZipEntries ==
    [name : UNION {[1..n -> NameComponents] : n \in 1..MaxNameLen},
     abs : BOOLEAN, dir : BOOLEAN]

SkillDirs == {<<>>, <<N_d>>, <<N_n>>, <<N_l>>, <<N_l, N_a>>}

\* filepath.Clean of a relative name: ".." is kept where nothing precedes it.
RECURSIVE CleanRelFrom(_, _)
CleanRelFrom(acc, rest) ==
    IF rest = <<>> THEN acc
    ELSE IF rest[1] = Dot THEN CleanRelFrom(acc, Tail(rest))
    ELSE IF rest[1] = DotDot
         THEN CleanRelFrom(IF acc # <<>> /\ Last(acc) # DotDot THEN Front(acc)
                           ELSE Append(acc, DotDot), Tail(rest))
    ELSE CleanRelFrom(Append(acc, rest[1]), Tail(rest))

\* filepath.Clean(f.Name): [abs, name].
CleanName(e) ==
    [abs |-> e.abs,
     name |-> IF e.abs THEN CleanFrom(<<>>, e.name) ELSE CleanRelFrom(<<>>, e.name)]

\* A relative name as a string: "." when it has no component.
RECURSIVE RelStr(_)
RelStr(n) ==
    IF n = <<>> THEN <<".">>
    ELSE IF Len(n) = 1 THEN n[1]
    ELSE n[1] \o <<"/">> \o RelStr(Tail(n))

\* A slip: only absolute names are refused by the first test.
InvalidNameAbsOnly(c) == c.abs

\* strings.HasPrefix(cleanName, "..") || filepath.IsAbs(cleanName)
InvalidName(c) == (~c.abs /\ HasPrefix(RelStr(c.name), <<".", ".">>)) \/ c.abs

\* os.RemoveAll(p): p and all below it go; a symlink is removed, not followed.
RemoveAll(f, p) ==
    IF p = <<>> THEN f
    ELSE LET parent == EvalSymlinks(f, Front(p))
             target == Append(parent.path, Last(p))
         IN IF parent.err # "nil" THEN f
            ELSE [q \in {q \in DOMAIN f : ~(Len(q) >= Len(target)
                                              /\ SubSeq(q, 1, Len(target)) = target)}
                    |-> f[q]]

\* p is dir or lies below it, component by component.
Under(p, dir) == Len(p) >= Len(dir) /\ SubSeq(p, 1, Len(dir)) = dir

\* What the .checksum files hold: "old" is the checksum of an earlier sync,
\* "req" the checksum of the request, "other" anything else.
NoSums == [p \in {} |-> "none"]

\* The .checksum files that are left in f keep what they held.
KeepSums(f) == [p \in {q \in DOMAIN sums : q \in DOMAIN f} |-> sums[p]]

\* The file at p in f was written with c.
PutSum(f, p, c) ==
    [q \in {r \in DOMAIN sums \cup {p} : r \in DOMAIN f /\ Last(r) = N_checksum}
        |-> IF q = p THEN c ELSE sums[q]]

NoZip ==
    [pc |-> "idle", skillDir |-> <<>>, dest |-> <<>>, destReal |-> <<>>, n |-> 0,
     err |-> "nil", wrote |-> {}, last |-> [abs |-> FALSE, name |-> <<>>],
     lastWrote |-> {}]

\* SyncSkill up to the loop of unzipSkill: safePath, the decoding of the
\* archive, RemoveAll and MkdirAll of the destination.
SyncSkill(skillDir, zipOk) ==
    LET sp == safePath(fs, skillDir)
        rm == RemoveAll(fs, sp.path)
        md == MkdirAll(rm, sp.path)
        stop(e) == [NoZip EXCEPT !.pc = "done", !.err = e]
    IN /\ zp.pc = "idle"
       /\ IF sp.err # "nil" THEN zp' = stop(sp.err) /\ fs' = fs
          ELSE IF ~zipOk THEN zp' = stop("failed to read zip archive") /\ fs' = fs
          ELSE IF md.err # "nil"
            THEN zp' = stop("failed to create destination directory") /\ fs' = md.fs
          ELSE /\ fs' = md.fs
               /\ zp' = [NoZip EXCEPT !.pc = "unpack", !.skillDir = skillDir,
                                      !.dest = sp.path,
                                      !.destReal = EvalSymlinks(md.fs, sp.path).path]
       /\ UNCHANGED <<fsOp, fsPath, fsRet, fsErr, fsReal>>
       /\ sums' = KeepSums(fs')
       /\ UNCHANGED <<permVars, sessVars, rd, lw, lo, welcome, writeFailed, mcp, cfg, mcpCalls, sessInfo, web, lastWait>>

\* One turn of the loop of unzipSkill, for the entry e of the archive.
UnzipEntry(e) ==
    LET c == CleanName(e)
        absTarget == JoinAbs(zp.dest, c.name)
        mdDir == MkdirAll(fs, absTarget)
        md == MkdirAll(fs, Front(absTarget))
        wf == WriteFile(md.fs, absTarget)
        abort(msg, f) ==
            /\ fs' = f
            /\ zp' = [zp EXCEPT !.pc = "done", !.err = msg, !.n = @ + 1, !.last = c,
                                !.lastWrote = DOMAIN f \ DOMAIN fs,
                                !.wrote = @ \cup (DOMAIN f \ DOMAIN fs)]
        goOn(f, w) ==
            /\ fs' = f
            /\ zp' = [zp EXCEPT !.n = @ + 1, !.last = c, !.lastWrote = w,
                                !.wrote = @ \cup w]
    IN /\ zp.pc = "unpack"
       /\ zp.n < MaxArchive
       /\ IF InvalidName(c) THEN abort("invalid file path in zip", fs)
          ELSE IF ~HasPrefix(PathStr(absTarget), PathStr(zp.dest))
            THEN abort("file path escapes destination", fs)
          ELSE IF e.dir
            THEN IF mdDir.err # "nil"
                   THEN abort("failed to create directory", mdDir.fs)
                 ELSE goOn(mdDir.fs, DOMAIN mdDir.fs \ DOMAIN fs)
          ELSE IF absTarget = <<>> \/ md.err # "nil"
            THEN abort("failed to create parent directory", md.fs)
          ELSE IF wf.err # "nil" THEN abort("failed to extract", md.fs)
          ELSE goOn(wf.fs, (DOMAIN md.fs \ DOMAIN fs) \cup {wf.path})
       /\ IF ~e.dir /\ zp'.err = "nil" /\ Last(wf.path) = N_checksum
            THEN \E held \in {"req", "other"} : sums' = PutSum(fs', wf.path, held)
          ELSE sums' = KeepSums(fs')
       /\ UNCHANGED <<fsOp, fsPath, fsRet, fsErr, fsReal>>
       /\ UNCHANGED <<permVars, sessVars, rd, lw, lo, welcome, writeFailed, mcp, cfg, mcpCalls, sessInfo, web, lastWait>>

\* The archive has no further entry: unzipSkill returns nil and SyncSkill
\* writes the checksum file.
UnzipDone ==
    LET wf == WriteFile(fs, Append(zp.dest, N_checksum))
    IN /\ zp.pc = "unpack"
       /\ fs' = wf.fs
       /\ zp' = [zp EXCEPT !.pc = "done",
                           !.err = IF wf.err # "nil" THEN "failed to write checksum"
                                   ELSE "nil"]
       /\ UNCHANGED <<fsOp, fsPath, fsRet, fsErr, fsReal>>
       /\ sums' = IF wf.err = "nil" THEN PutSum(fs', wf.path, "req") ELSE KeepSums(fs')
       /\ UNCHANGED <<permVars, sessVars, rd, lw, lo, welcome, writeFailed, mcp, cfg, mcpCalls, sessInfo, web, lastWait>>

(***************************************************************************)
(* mcp.ClientManager (mcp/client.go).  Callers are the goroutines of tasks *)
(* that run mcp_call or mcp_list_tools; a session is named by the number   *)
(* of the connect that made it.                                            *)
(***************************************************************************)
\* The goroutines calling the manager, and the sessions it ever connects.
MaxCallers == 2
MaxSessions == 3

Callers == 1..MaxCallers
Servers == {"s1", "s2"}

NoCaller == [pc |-> "idle", op |-> "none", server |-> "none", sess |-> 0, err |-> "nil"]

\* NewClientManager, and the history kept for the properties: made counts
\* the sessions connected; failed holds the sessions on which a call has
\* failed, evicted those of them for which invalidateSession has run;
\* good[s] is the session of s on which a call last ended well while it
\* was the cached one and no call on it had failed (0 once one fails).
NewClientManager ==
    [mu |-> 0, sessions |-> [s \in Servers |-> 0], made |-> 0,
     callers |-> [c \in Callers |-> NoCaller],
     good |-> [s \in Servers |-> 0], failed |-> {}, evicted |-> {}]

\* The settings a request carries for a server name (transport, URL or
\* command, static and dynamic headers): two that differ.
Settings == {"a", "b"}

NoSessInfo ==
    [want |-> [c \in Callers |-> "none"], built |-> [n \in 1..MaxSessions |-> "none"],
     closed |-> {}]

\* A task calls CallTool or ListTools for a server; both begin with
\* GetSession.
McpCall(c, server, op) ==
    /\ mcp.callers[c].pc = "idle"
    /\ mcp' = [mcp EXCEPT !.callers[c] =
                    [NoCaller EXCEPT !.pc = "getSession", !.op = op, !.server = server]]
    /\ \E settings \in Settings : sessInfo' = [sessInfo EXCEPT !.want[c] = settings]
    /\ UNCHANGED <<permVars, fsVars, sessVars, rd, lw, lo, zp, welcome, writeFailed, cfg, mcpCalls, sums, web, lastWait>>

\* GetSession up to the cache lookup: m.mu is taken; a cached session is
\* returned and the deferred Unlock runs; otherwise the caller goes on to
\* connect, the mutex held.
GetSession(c) ==
    LET me == mcp.callers[c]
    IN /\ me.pc = "getSession"
       /\ mcp.mu = 0
       /\ IF mcp.sessions[me.server] # 0
            THEN mcp' = [mcp EXCEPT !.callers[c].pc = "call",
                                    !.callers[c].sess = mcp.sessions[me.server]]
            ELSE mcp' = [mcp EXCEPT !.mu = c, !.callers[c].pc = "connect"]
       /\ UNCHANGED <<permVars, fsVars, sessVars, rd, lw, lo, zp, welcome, writeFailed, cfg, mcpCalls, sums, sessInfo, web, lastWait>>

\* GetSession from createTransport on: client.Connect returns a session,
\* which is cached, or an error (so does createTransport); the deferred
\* Unlock runs as GetSession returns.
GetSessionConnect(c, ok) ==
    LET me == mcp.callers[c]
    IN /\ me.pc = "connect"
       /\ IF ok
            THEN /\ mcp.made < MaxSessions
                 /\ mcp' = [mcp EXCEPT !.mu = 0, !.made = @ + 1,
                                       !.sessions[me.server] = mcp.made + 1,
                                       !.callers[c].pc = "call",
                                       !.callers[c].sess = mcp.made + 1]
            ELSE mcp' = [mcp EXCEPT !.mu = 0,
                                    !.callers[c] = [NoCaller EXCEPT !.err = "failed to connect"]]
       /\ sessInfo' = IF ok THEN [sessInfo EXCEPT !.built[mcp.made + 1] = sessInfo.want[c]]
                         ELSE sessInfo
       /\ UNCHANGED <<permVars, fsVars, sessVars, rd, lw, lo, zp, welcome, writeFailed, cfg, mcpCalls, sums, web, lastWait>>

\* session.CallTool or session.ListTools returns: a result, with which the
\* caller returns, or an error.
SessionCall(c, ok) ==
    LET me == mcp.callers[c]
    IN /\ me.pc = "call"
       /\ IF ok
            THEN mcp' = [mcp EXCEPT !.callers[c] = NoCaller,
                                    !.good[me.server] =
                                        IF mcp.sessions[me.server] = me.sess
                                           /\ me.sess \notin mcp.failed
                                          THEN me.sess ELSE @]
            ELSE mcp' = [mcp EXCEPT !.callers[c].pc = "invalidate",
                                    !.failed = @ \cup {me.sess},
                                    !.good[me.server] = IF @ = me.sess THEN 0 ELSE @]
       /\ UNCHANGED <<permVars, fsVars, sessVars, rd, lw, lo, zp, welcome, writeFailed, cfg, mcpCalls, sums, sessInfo, web, lastWait>>

\* invalidateSession(server.Name), after which the caller returns the
\* error.
invalidateSession(c) ==
    LET me == mcp.callers[c]
    IN /\ me.pc = "invalidate"
       /\ mcp.mu = 0
       /\ mcp' = [mcp EXCEPT !.sessions[me.server] = 0,
                             !.evicted = @ \cup {me.sess},
                             !.callers[c] = [NoCaller EXCEPT !.err = "failed to call"]]
       /\ UNCHANGED <<permVars, fsVars, sessVars, rd, lw, lo, zp, welcome, writeFailed, cfg, mcpCalls, sums, sessInfo, web, lastWait>>

(***************************************************************************)
(* Config.Validate.  Strings are sequences of characters.                  *)
(***************************************************************************)
MaxKeyLen == 4

KeyChars == {"f", "k", "_"}
APIKeys == UNION {[1..n -> KeyChars] : n \in 0..MaxKeyLen}

WS == <<"w", "s", ":", "/", "/">>
WSS == <<"w", "s", "s", ":", "/", "/">>
APIURLs ==
    {<<>>, WS, WSS, WS \o <<"h">>, WSS \o <<"h">>,
     <<"w", "s", ":", "/">>, <<"w", "s", "s", ":", "/", "h">>,
     <<"h", "t", "t", "p", ":", "/", "/", "h">>,
     <<"h">> \o WS, <<"W", "S", ":", "/", "/", "h">>}

isValidWebSocketURL(url) == HasPrefix(url, WS) \/ HasPrefix(url, WSS)

Validate(c) ==
    IF c.APIKey = <<>> THEN "api_key is required"
    ELSE IF ~HasPrefix(c.APIKey, <<"f", "k", "_">>) THEN "api_key must start with 'fk_'"
    ELSE IF c.APIURL = <<>> THEN "API_url is required"
    ELSE IF ~isValidWebSocketURL(c.APIURL) THEN "API_url must start with ws:// or wss://"
    ELSE "nil"

NoConfig == [called |-> FALSE, APIKey |-> <<>>, APIURL |-> <<>>, err |-> "nil"]

ValidateConfig(key, url) ==
    /\ cfg' = [called |-> TRUE, APIKey |-> key, APIURL |-> url,
               err |-> Validate([APIKey |-> key, APIURL |-> url])]
    /\ UNCHANGED <<permVars, fsVars, sessVars, rd, lw, lo, zp, welcome, writeFailed, mcp, mcpCalls, sums, sessInfo, web, lastWait>>

(***************************************************************************)
(* Workspace.WebFetch (workspace/webfetch.go).  A response is its body     *)
(* size, whether the Content-Length header gives it, and the number of its *)
(* bytes that had reached the transport when Do returned.                    *)
(***************************************************************************)
\* maxResponseSize, in bytes of the model.
maxResponseSize == 2

Responses ==
    {r \in [size : 0..(maxResponseSize + 1), lengthKnown : BOOLEAN,
            arrived : 0..(maxResponseSize + 1)] : r.arrived <= r.size}

NoResponse == [size |-> 0, lengthKnown |-> FALSE, arrived |-> 0]

NoFetch ==
    [pc |-> "idle", format |-> "", resp |-> NoResponse, httpCtxDone |-> FALSE,
     err |-> "nil", len |-> 0]

\* WebFetch is called; its request goes out under httpCtx.
WebFetch(format) ==
    /\ web.pc = "idle"
    /\ web' = [NoFetch EXCEPT !.pc = "fetchURL",
                              !.format = IF format = "" THEN "markdown" ELSE format]
    /\ UNCHANGED <<permVars, fsVars, sessVars, rd, lw, lo, zp, welcome, writeFailed, mcp, cfg, mcpCalls, sums, sessInfo, lastWait>>

\* fetchURL returns: Do gave a response, the timeout passed or the request
\* failed; the deferred cancel() of httpCtx runs in each case.
fetchURL(outcome, r) ==
    /\ web.pc = "fetchURL"
    /\ web' = CASE outcome = "response" ->
                     [web EXCEPT !.pc = "readResponseBody", !.resp = r,
                                 !.httpCtxDone = TRUE]
                [] outcome = "timeout" ->
                     [web EXCEPT !.pc = "done", !.err = "request timed out",
                                 !.httpCtxDone = TRUE]
                [] OTHER ->
                     [web EXCEPT !.pc = "done", !.err = "request failed",
                                 !.httpCtxDone = TRUE]
    /\ UNCHANGED <<permVars, fsVars, sessVars, rd, lw, lo, zp, welcome, writeFailed, mcp, cfg, mcpCalls, sums, sessInfo, lastWait>>

\* io.ReadAll on the body of a request: the bytes that had arrived are
\* read; the read of any further byte fails once the context of the
\* request is cancelled.
ReadAll(r, limit, cancelled) ==
    LET wanted == Min(r.size, limit)
    IN IF cancelled /\ r.arrived < wanted
         THEN [n |-> r.arrived, err |-> "context canceled"]
         ELSE [n |-> wanted, err |-> "nil"]

\* readResponseBody: the error it returns and the length of the body.
readResponseBody(r, cancelled) ==
    LET body == ReadAll(r, maxResponseSize + 1, cancelled)
    IN IF r.lengthKnown /\ r.size > maxResponseSize
         THEN [err |-> "response too large", len |-> 0]
       ELSE IF body.err # "nil" THEN [err |-> "failed to read response", len |-> 0]
       ELSE IF body.n > maxResponseSize THEN [err |-> "response too large", len |-> 0]
       ELSE [err |-> "nil", len |-> body.n]

\* WebFetch after fetchURL: readResponseBody returns the body or an error.
WebFetchRead ==
    LET b == readResponseBody(web.resp, web.httpCtxDone)
    IN /\ web.pc = "readResponseBody"
       /\ web' = [web EXCEPT !.pc = "done", !.err = b.err, !.len = b.len]
       /\ UNCHANGED <<permVars, fsVars, sessVars, rd, lw, lo, zp, welcome, writeFailed, mcp, cfg, mcpCalls, sums, sessInfo, lastWait>>

LibIdle ==
    /\ rd = NoRead
    /\ lw = NoWriter
    /\ lo = NoOutput
    /\ zp = NoZip
    /\ welcome = [k \in Conns |-> "none"]
    /\ writeFailed = [k \in Conns |-> FALSE]
    /\ mcp = NewClientManager
    /\ cfg = NoConfig
    /\ mcpCalls = <<>>
    /\ sums = NoSums
    /\ sessInfo = NoSessInfo
    /\ web = NoFetch
    /\ lastWait = 0

PermIdle ==
    /\ permPc = "new"
    /\ patterns = <<>>
    /\ rules = <<>>
    /\ bashCmd = NoCommand
    /\ bashErr = NoErr
    /\ bashStarted = FALSE
    /\ bashRes = NoRes

InitPath == FsInit /\ PermIdle /\ SessInit /\ LibIdle

NextPath ==
    \/ \E path \in CallerPaths : Read(path) /\ UNCHANGED <<permVars, sessVars, libVars>>
    \/ \E path \in CallerPaths : Write(path) /\ UNCHANGED <<permVars, sessVars, libVars>>
    \/ \E path \in CallerPaths : WriteRaw(path) /\ UNCHANGED <<permVars, sessVars, libVars>>
    \/ \E path \in CallerPaths : List(path) /\ UNCHANGED <<permVars, sessVars, libVars>>
    \/ FsReturn /\ UNCHANGED <<permVars, sessVars, libVars>>

SpecPath == InitPath /\ [][NextPath]_vars

(***************************************************************************)
(* The permission checker's life: NewChecker at start-up, then Bash calls. *)
(***************************************************************************)

PatternMaps ==
    UNION {[ks -> ActionStrings] :
             ks \in {k \in SUBSET PatternUniverse : Cardinality(k) <= MaxRules}}

\* The working directories a Bash call names: "" (the root), "d", "..".
Workdirs == {<<>>, <<N_d>>, <<DotDot>>}

PermInit ==
    /\ permPc = "new"
    /\ patterns \in PatternMaps
    /\ rules = <<>>
    /\ bashCmd = NoCommand
    /\ bashErr = NoErr
    /\ bashStarted = FALSE
    /\ bashRes = NoRes

\* permission.NewChecker(cfg.Permission.Bash), in runRunner
NewCheckerCall ==
    /\ permPc = "new"
    /\ \E order \in IterationOrders(patterns) : rules' = NewChecker(patterns, order)
    /\ permPc' = "ready"
    /\ UNCHANGED <<patterns, bashCmd, bashErr, bashStarted, bashRes>>

\* Workspace.resolveWorkdir
resolveWorkdir(f, workdir) == IF workdir = <<>> THEN PathOk(root) ELSE safePath(f, workdir)

\* A slip: the command is run whatever the checker said.
BashResultUnchecked(rs, f, command, workdir) ==
    LET wd == resolveWorkdir(f, workdir)
    IN IF wd.err # "nil"
       THEN [err |-> [msg |-> wd.err, pattern |-> <<>>, command |-> <<>>], started |-> FALSE]
       ELSE [err |-> NoErr, started |-> TRUE]

\* Workspace.Bash up to the start of `bash -c`: the error returned before it, and
\* whether executeBashCommand was reached
BashResult(rs, f, command, workdir) ==
    LET ce == Check(rs, command)
        wd == resolveWorkdir(f, workdir)
    IN IF ce # NoErr THEN [err |-> ce, started |-> FALSE]
       ELSE IF wd.err # "nil"
       THEN [err |-> [msg |-> wd.err, pattern |-> <<>>, command |-> <<>>], started |-> FALSE]
       ELSE [err |-> NoErr, started |-> TRUE]

\* Workspace.Bash, for a command whose process is proc, up to the return of
\* executeBashCommand.
Bash(command, workdir, timeoutSec, proc) ==
    LET r == BashResult(rules, fs, command, workdir)
    IN /\ permPc = "ready"
       /\ bashCmd = NoCommand
       /\ bashCmd' = command
       /\ bashErr' = r.err
       /\ bashStarted' = r.started
       /\ IF r.started
             THEN \E fate \in Fates(proc, resolveTimeout(timeoutSec)) :
                      bashRes' = executeBashCommand(proc, resolveTimeout(timeoutSec),
                                                    fate)
             ELSE bashRes' = NoRes
       /\ UNCHANGED <<permPc, patterns, rules>>

\* Bash has returned; the next call may start.
BashReturn ==
    /\ bashCmd # NoCommand
    /\ bashCmd' = NoCommand
    /\ bashErr' = NoErr
    /\ bashStarted' = FALSE
    /\ bashRes' = NoRes
    /\ UNCHANGED <<permPc, patterns, rules>>

FsIdle ==
    /\ fs = (<<N_w, N_l>> :> Link(<<N_o>>)) @@ BaseFs
    /\ fsOp = "none"
    /\ fsPath = <<>>
    /\ fsRet = NoRet
    /\ fsErr = "nil"
    /\ fsReal = {}

InitPerm == PermInit /\ FsIdle /\ SessInit /\ LibIdle

NextPerm ==
    \/ NewCheckerCall /\ UNCHANGED <<fsVars, sessVars, libVars>>
    \/ \E command \in Commands, workdir \in Workdirs :
          Bash(command, workdir, 0, QuickProc) /\ UNCHANGED <<fsVars, sessVars, libVars>>
    \/ BashReturn /\ UNCHANGED <<fsVars, sessVars, libVars>>

SpecPerm == InitPerm /\ [][NextPerm]_vars

\* SpecBash: Bash calls under the table {"*": "allow"}, with every timeout
\* argument and every process of the model.
InitBash ==
    /\ permPc = "new"
    /\ patterns = (P_star :> "allow")
    /\ rules = <<>>
    /\ bashCmd = NoCommand
    /\ bashErr = NoErr
    /\ bashStarted = FALSE
    /\ bashRes = NoRes
    /\ FsIdle
    /\ SessInit
    /\ LibIdle

NextBash ==
    \/ NewCheckerCall /\ UNCHANGED <<fsVars, sessVars, libVars>>
    \/ \E command \in Commands, workdir \in Workdirs,
          timeoutSec \in TimeoutArgs, proc \in Procs :
          Bash(command, workdir, timeoutSec, proc) /\ UNCHANGED <<fsVars, sessVars, libVars>>
    \/ BashReturn /\ UNCHANGED <<fsVars, sessVars, libVars>>

SpecBash == InitBash /\ [][NextBash]_vars

(***************************************************************************)
(* Properties of the permission checker and of Bash (SpecPerm)             *)
(***************************************************************************)

S_ls == <<"l", "s">>
S_ls_l == <<"l", "s", " ", "-", "l">>
S_id == <<"i", "d">>
S_rm == <<"r", "m", " ", "-", "r", "f", " ", "/">>
S_echo_id == <<"e", "c", "h", "o", " ", "$", "(", "i", "d", ")">>

CallStrings == {S_ls, S_ls_l, S_id, S_rm, S_echo_id}

\* The call expressions of each command, written out in normalized form.
CallTexts(command) ==
    CASE command = Cmd_ls -> {S_ls}
      [] command = Cmd_ls_l -> {S_ls_l}
      [] command = Cmd_id -> {S_id}
      [] command = Cmd_rm -> {S_rm}
      [] command \in {Cmd_seq, Cmd_and, Cmd_pipe} -> {S_ls_l, S_id}
      [] command = Cmd_or -> {S_id, S_rm}
      [] command = Cmd_subst -> {S_echo_id, S_id}
      [] OTHER -> {}

ParsedCommands == {c \in Commands : ~c.blank /\ c.parses}

\* The rules of table rs that match s, and the last of them.
MatchingRules(rs, s) == {i \in 1..Len(rs) : matchPattern(rs[i].Pattern, s)}
LastMatching(rs, s) == CHOOSE i \in MatchingRules(rs, s) : \A j \in MatchingRules(rs, s) : j <= i

\* The rule table allows s: some rule matches and the last one that does says allow.
AllowedByTable(rs, s) ==
    MatchingRules(rs, s) # {} /\ rs[LastMatching(rs, s)].Action = ActionAllow

\* A rule table of the data model: every action is allow or deny.
WellFormedTable(rs) == \A i \in 1..Len(rs) : rs[i].Action \in {ActionAllow, ActionDeny}

\* C2: Bash reaches `bash -c` only when Check returned nil for the command, which
\* for a table of allow/deny rules means every call expression of the command is
\* allowed; when Check denies, the subprocess is not started and the error Bash
\* returns contains "denied".
C2_BashOnlyAfterCheck ==
    /\ bashStarted =>
         /\ Check(rules, bashCmd) = NoErr
         /\ bashCmd \in ParsedCommands
         /\ WellFormedTable(rules) => \A s \in CallTexts(bashCmd) : AllowedByTable(rules, s)
    /\ (/\ bashCmd \in ParsedCommands
        /\ WellFormedTable(rules)
        /\ \E s \in CallTexts(bashCmd) : ~AllowedByTable(rules, s))
         => ~bashStarted /\ bashErr.msg \in DeniedMsgs

\* C2 witness: a pipeline of two call expressions, both allowed, was started.
C2_Witness ==
    /\ bashStarted
    /\ bashCmd = Cmd_pipe
    /\ WellFormedTable(rules)
    /\ Len(rules) >= 2

\* C3: for a table of allow/deny rules, Check returns nil on a parsed command
\* exactly when every call expression of it (joined by ; && || |, or inside a
\* command substitution) is allowed; otherwise the error names a call expression
\* of the command that is not allowed and the rule that decided it (none when no
\* rule matched).
C3_WholeCommandVerdict ==
    (permPc = "ready" /\ WellFormedTable(rules)) =>
        \A c \in ParsedCommands :
            LET e == Check(rules, c)
            IN /\ (e = NoErr) <=> (\A s \in CallTexts(c) : AllowedByTable(rules, s))
               /\ e # NoErr =>
                    /\ e.msg \in DeniedMsgs
                    /\ e.command \in CallTexts(c)
                    /\ ~AllowedByTable(rules, e.command)
                    /\ e.pattern = IF MatchingRules(rules, e.command) = {} THEN <<>>
                                   ELSE rules[LastMatching(rules, e.command)].Pattern
                    /\ (e.msg = "command denied by rule") <=> (e.pattern # <<>>)

\* C3 witness: "ls -l; id" was denied because of its second call expression, the
\* first being allowed.
C3_Witness ==
    /\ bashCmd = Cmd_seq
    /\ WellFormedTable(rules)
    /\ AllowedByTable(rules, S_ls_l)
    /\ bashErr.msg = "command denied by rule"
    /\ bashErr.command = S_id
    /\ ~bashStarted

DenyAllTable == patterns = (P_star :> "deny") \/ DOMAIN patterns = {}

\* C4: under a deny-all table (or an empty one) Bash's check rejects every
\* non-empty command that parses, whatever nodes its parse tree holds.
C4_DenyAllDeniesEverything ==
    (permPc = "ready" /\ DenyAllTable /\ bashCmd \in ParsedCommands) =>
        bashErr # NoErr /\ ~bashStarted

\* C5: evaluateRules returns the action and pattern of the last rule, in table
\* order, that matches the string, and deny with no pattern when none matches.
C5_LastMatchWins ==
    permPc = "ready" =>
        \A s \in CallStrings :
            evaluateRules(rules, s) =
                IF MatchingRules(rules, s) = {}
                THEN [action |-> ActionDeny, pattern |-> <<>>]
                ELSE [action |-> rules[LastMatching(rules, s)].Action,
                      pattern |-> rules[LastMatching(rules, s)].Pattern]

\* C5 witness: three rules match "ls -l", the first two say deny, the last one
\* says allow, and the command was started.
C5_Witness ==
    /\ bashCmd = Cmd_ls_l
    /\ bashStarted
    /\ Cardinality(MatchingRules(rules, S_ls_l)) = 3
    /\ \A i \in MatchingRules(rules, S_ls_l) :
          rules[i].Action = IF i = 3 THEN ActionAllow ELSE ActionDeny

\* C6: the table NewChecker builds holds each pattern of the map once, "*" first
\* when present, the others in strictly ascending byte order, each with its
\* lower-cased action; every iteration order of the map gives this same table.
C6_DeterministicTable ==
    permPc = "ready" =>
        /\ Len(rules) = Cardinality(DOMAIN patterns)
        /\ {rules[i].Pattern : i \in 1..Len(rules)} = DOMAIN patterns
        /\ \A i \in 1..Len(rules) : rules[i].Action = ToLower(patterns[rules[i].Pattern])
        /\ P_star \in DOMAIN patterns => rules[1].Pattern = P_star
        /\ \A i \in 2..Len(rules) : rules[i].Pattern # P_star
        /\ \A i, j \in 1..Len(rules) :
              (i < j /\ rules[i].Pattern # P_star) => StrLess(rules[i].Pattern, rules[j].Pattern)
        /\ \A o \in IterationOrders(patterns) : NewChecker(patterns, o) = rules

\* C6 witness: a table built from a map holding "*" and two other patterns.
C6_Witness ==
    /\ permPc = "ready"
    /\ Len(rules) = 3
    /\ rules[1].Pattern = P_star
    /\ rules[2].Pattern = P_mid
    /\ rules[3].Pattern = P_ls_any

\* C19: when the command is still running at the moment its timeout elapses
\* and is killed, Bash returns a result, not an error, with exit code 124 and
\* stderr "command timed out".
C19_TimeoutIs124 ==
    bashRes.fate = "killed" =>
        /\ bashRes.ret = "result"
        /\ bashRes.exit = 124
        /\ bashRes.stderr = "command timed out"

(***************************************************************************)
(* Properties of the path resolver and the file operations (SpecPath)      *)
(***************************************************************************)

\* p is r or lies below r
Within(p, r) == Len(r) <= Len(p) /\ SubSeq(p, 1, Len(r)) = r

RealRoot(f) == IF EvalSymlinks(f, root).err = "nil" THEN EvalSymlinks(f, root).path ELSE root

\* C7: safePath returns an error or a path that is the root or below it, and
\* rejects every caller path whose absolute form is not the root or below it
\* with "path is outside workspace root".
C7_SafePathContained ==
    fsOp # "none" =>
        /\ fsRet.err = "nil" => Within(fsRet.path, root)
        /\ ~Within(JoinAbs(root, fsPath), root) => fsRet.err = "path is outside workspace root"

\* C8: no operation reads, writes or lists a location outside the real root by
\* way of a symlink below the root.
C8_NoSymlinkEscape ==
    (fsOp # "none" /\ Within(JoinAbs(root, fsPath), root)) =>
        \A p \in fsReal : Within(p, RealRoot(fs))

(***************************************************************************)
(* The session client (ws/client.go).  Every goroutine is a record with a  *)
(* position; a step is what the goroutine does between two points where    *)
(* another goroutine can observe or change what it shares.  The process is *)
(* alive until RunWithReconnect returns: runRunner then returns and the    *)
(* process exits, which ends every goroutine.  No step of the session      *)
(* touches the permission checker or the file system of the model.         *)
(***************************************************************************)
Running == mainPc # "returned"

\* The envelopes of the model.  A field that the payload of an envelope does
\* not have is at its zero value.
Heartbeat(env) ==
    [type |-> "heartbeat", env |-> env, task |-> 0, exec |-> 0,
     success |-> FALSE, exitCode |-> 0, error |-> ""]

\* Handler.sendTaskResult: the envelope it hands to SendPayload, for the
\* e-th task.request, of task id t.
sendTaskResult(t, e, success, errMsg, exitCode) ==
    [type |-> "task.result", env |-> FALSE, task |-> t, exec |-> e,
     success |-> success, exitCode |-> exitCode, error |-> errMsg]

\* The task.result of an execution that succeeded.
TaskResult(t, e) == sendTaskResult(t, e, TRUE, "", 0)

\* A send that appends whatever the buffer holds.
SendUnbounded(msg) == [sendCh EXCEPT ![sendEpoch] = Append(@, msg)]

\* Client.Send: a non-blocking send on the channel sendCh names right now;
\* the envelope is discarded when the buffer is full.
Send(msg) ==
    [sendCh EXCEPT ![sendEpoch] =
        IF Len(@) < SendChCap THEN Append(@, msg) ELSE @]

\* ---- RunWithReconnect -------------------------------------------------

\* The select at the head of the loop.
ReconnectSelect ==
    /\ Running
    /\ UNCHANGED <<permVars, fsVars, libVars>>
    /\ mainPc = "loop"
    /\ \/ ctxDone /\ mainPc' = "returned" /\ runErr' = "ctx"
       \/ closed /\ mainPc' = "returned" /\ runErr' = "nil"
       \/ ~ctxDone /\ ~closed /\ mainPc' = "connect" /\ UNCHANGED runErr
    /\ UNCHANGED <<ctxDone, closed, conn, connState, doneEpoch, sendEpoch,
                   doneClosed, sendCh, envInfoSent, attempt, delay, stopCloses,
                   nCloses, sl, hb, ticks, wire, taskVars>>

\* How readWelcomeMessage can end: the first frame is a welcome envelope
\* ("ok"); none comes within 5 s or the link breaks ("missing"); the frame
\* or its payload does not parse ("malformed"); the frame is an envelope of
\* another type ("other").
WelcomeKinds == {"ok", "missing", "malformed", "other"}

\* readWelcomeMessage: nil or the error it returns.
readWelcomeMessage(w) ==
    CASE w = "ok" -> "nil"
      [] w = "missing" -> "failed to read welcome"
      [] w = "malformed" -> "failed to parse message"
      [] w = "other" -> "expected welcome message"

\* Connect once the dial has succeeded: the error it returns.  The error of
\* readWelcomeMessage is logged and dropped.
ConnectResult(w) == LET logged == readWelcomeMessage(w) IN "nil"

\* The connection can still deliver frames: a read that ran into its
\* deadline leaves the connection failing every later read.
Readable == connState[conn] = "open" /\ welcome[conn] # "missing"

\* The dial succeeds and Connect returns nil: c.conn is the new connection;
\* attempt and delay reset.  w is how the read of the welcome frame ended.
ConnectOk(limit, w) ==
    /\ Running
    /\ UNCHANGED <<permVars, fsVars, rd, lw, lo, zp, writeFailed, mcp, cfg, mcpCalls, sums, sessInfo, web>>
    /\ lastWait' = 0
    /\ mainPc = "connect"
    /\ ~ctxDone
    /\ conn < limit
    /\ ConnectResult(w) = "nil"
    /\ welcome' = [welcome EXCEPT ![conn + 1] = w]
    /\ conn' = conn + 1
    /\ connState' = [connState EXCEPT ![conn + 1] = "open"]
    /\ attempt' = 0
    /\ delay' = initialReconnectDelay
    /\ mainPc' = "run"
    /\ UNCHANGED <<ctxDone, closed, doneEpoch, sendEpoch, doneClosed, sendCh,
                   envInfoSent, runErr, stopCloses, nCloses, sl, hb, ticks, wire,
                   taskVars>>

\* Connect fails (at most fails times in a row while the context is live; a
\* dial under a cancelled context always fails): count the attempt, give up
\* past maxReconnectAttempts.
ConnectFail(fails) ==
    /\ Running
    /\ UNCHANGED <<permVars, fsVars, rd, lw, lo, zp, welcome, writeFailed, mcp, cfg, mcpCalls, sums, sessInfo, web>>
    /\ lastWait' = 0
    /\ mainPc = "connect"
    /\ attempt < fails \/ ctxDone
    /\ attempt' = attempt + 1
    /\ IF attempt + 1 > maxReconnectAttempts
          THEN mainPc' = "returned" /\ runErr' = "fatal"
          ELSE mainPc' = "backoff" /\ UNCHANGED runErr
    /\ UNCHANGED <<ctxDone, closed, conn, connState, doneEpoch, sendEpoch,
                   doneClosed, sendCh, envInfoSent, delay, stopCloses, nCloses,
                   sl, hb, ticks, wire, taskVars>>

\* Doubling with no ceiling.
NextDelayUncapped(d) == d * 2

\* The delay after the one just waited: doubled, up to maxReconnectDelay.
NextDelay(d) == IF d * 2 > maxReconnectDelay THEN maxReconnectDelay ELSE d * 2

\* The wait after a failed dial: the context ends it, or the delay elapses
\* and is doubled up to maxReconnectDelay.
Backoff ==
    /\ Running
    /\ UNCHANGED <<permVars, fsVars, rd, lw, lo, zp, welcome, writeFailed, mcp, cfg, mcpCalls, sums, sessInfo, web>>
    /\ mainPc = "backoff"
    /\ \/ /\ ctxDone
          /\ mainPc' = "returned"
          /\ runErr' = "ctx"
          /\ UNCHANGED <<delay, lastWait>>
       \/ /\ mainPc' = "loop"
          /\ lastWait' = delay
          /\ delay' = NextDelay(delay)
          /\ UNCHANGED runErr
    /\ UNCHANGED <<ctxDone, closed, conn, connState, doneEpoch, sendEpoch,
                   doneClosed, sendCh, envInfoSent, attempt, stopCloses, nCloses,
                   sl, hb, ticks, wire, taskVars>>

\* Run: start the heartbeat loop and the send loop, enter the read loop.
Run ==
    /\ Running
    /\ UNCHANGED <<permVars, fsVars, libVars>>
    /\ mainPc = "run"
    /\ hb' = [hb EXCEPT ![conn] = [NoLoop EXCEPT !.pc = "start"]]
    /\ sl' = [sl EXCEPT ![conn] = [NoLoop EXCEPT !.pc = "start"]]
    /\ mainPc' = "readCheck"
    /\ UNCHANGED <<ctxDone, closed, conn, connState, doneEpoch, sendEpoch,
                   doneClosed, sendCh, envInfoSent, attempt, delay, runErr, stopCloses, nCloses, ticks, wire,
                   taskVars>>

\* Run returns: its deferred close(c.doneCh) closes the channel doneCh named
\* when Run began, which is the one it still names.
RunReturns ==
    /\ doneClosed' = [doneClosed EXCEPT ![doneEpoch] = TRUE]
    /\ mainPc' = "checkClosed"

\* readLoop: the select before each read.
ReadCheck ==
    /\ Running
    /\ UNCHANGED <<permVars, fsVars, libVars>>
    /\ mainPc = "readCheck"
    /\ IF ctxDone \/ closed
          THEN RunReturns
          ELSE mainPc' = "readMessage" /\ UNCHANGED doneClosed
    /\ UNCHANGED <<ctxDone, closed, conn, connState, doneEpoch, sendEpoch,
                   sendCh, envInfoSent, attempt, delay, runErr, stopCloses, nCloses, sl, hb, ticks, wire,
                   taskVars>>

\* readLoop: ReadMessage fails, because the read deadline passed or the
\* link broke ("lost": nothing closes the connection), or because Close has
\* closed the connection.
ReadError ==
    /\ Running
    /\ UNCHANGED <<permVars, fsVars, libVars>>
    /\ mainPc = "readMessage"
    /\ \/ connState[conn] = "open" /\ connState' = [connState EXCEPT ![conn] = "lost"]
       \/ connState[conn] = "closed" /\ UNCHANGED connState
    /\ RunReturns
    /\ UNCHANGED <<ctxDone, closed, conn, doneEpoch, sendEpoch, sendCh,
                   envInfoSent, attempt, delay, runErr, stopCloses, nCloses, sl, hb, ticks, wire, taskVars>>

\* readLoop: an envelope that is neither task.request nor task.cancel (or
\* whose payload does not parse): its handler goroutine changes nothing.
ReadOther ==
    /\ Running
    /\ UNCHANGED <<permVars, fsVars, libVars>>
    /\ mainPc = "readMessage"
    /\ Readable
    /\ mainPc' = "readCheck"
    /\ UNCHANGED <<ctxDone, closed, conn, connState, doneEpoch, sendEpoch,
                   doneClosed, sendCh, envInfoSent, attempt, delay, runErr, stopCloses, nCloses, sl, hb,
                   ticks, wire, taskVars>>

\* After Run: return when Close was called.
CheckClosed ==
    /\ Running
    /\ UNCHANGED <<permVars, fsVars, libVars>>
    /\ mainPc = "checkClosed"
    /\ IF closed THEN mainPc' = "returned" /\ runErr' = "nil"
                 ELSE mainPc' = "resetEnv" /\ UNCHANGED runErr
    /\ UNCHANGED <<ctxDone, closed, conn, connState, doneEpoch, sendEpoch,
                   doneClosed, sendCh, envInfoSent, attempt, delay, stopCloses,
                   nCloses, sl, hb, ticks, wire, taskVars>>

\* Reset for the reconnect: the flag under the mutex, then the two channel
\* fields, each by a plain assignment.
ResetEnvInfoSent ==
    /\ Running
    /\ UNCHANGED <<permVars, fsVars, libVars>>
    /\ mainPc = "resetEnv"
    /\ envInfoSent' = FALSE
    /\ mainPc' = "resetDone"
    /\ UNCHANGED <<ctxDone, closed, conn, connState, doneEpoch, sendEpoch,
                   doneClosed, sendCh, attempt, delay, runErr, stopCloses, nCloses, sl, hb, ticks, wire, taskVars>>

ResetDoneCh ==
    /\ Running
    /\ UNCHANGED <<permVars, fsVars, libVars>>
    /\ mainPc = "resetDone"
    /\ doneEpoch' = doneEpoch + 1
    /\ mainPc' = "resetSend"
    /\ UNCHANGED <<ctxDone, closed, conn, connState, sendEpoch, doneClosed,
                   sendCh, envInfoSent, attempt, delay, runErr, stopCloses, nCloses, sl, hb, ticks, wire, taskVars>>

ResetSendCh ==
    /\ Running
    /\ UNCHANGED <<permVars, fsVars, libVars>>
    /\ mainPc = "resetSend"
    /\ sendEpoch' = sendEpoch + 1
    /\ mainPc' = "loop"
    /\ UNCHANGED <<ctxDone, closed, conn, connState, doneEpoch, doneClosed,
                   sendCh, envInfoSent, attempt, delay, runErr, stopCloses, nCloses, sl, hb, ticks, wire, taskVars>>

\* Client.Close, the whole call under the mutex: nothing when the flag is
\* set; else the flag is set, the stop channel closed and the connection
\* c.conn names, if any, closed.
Close ==
    /\ closed' = TRUE
    /\ stopCloses' = IF closed THEN stopCloses ELSE stopCloses + 1
    /\ connState' = IF ~closed /\ conn # 0
                       THEN [connState EXCEPT ![conn] = "closed"]
                       ELSE connState

\* Some goroutine calls Client.Close.
CloseCall ==
    /\ Running
    /\ UNCHANGED <<permVars, fsVars, libVars>>
    /\ nCloses < MaxCloses
    /\ nCloses' = nCloses + 1
    /\ Close
    /\ UNCHANGED <<ctxDone, conn, doneEpoch, sendEpoch, doneClosed, sendCh,
                   envInfoSent, mainPc, attempt, delay, runErr, sl, hb, ticks,
                   wire, taskVars>>

\* ---- sendLoop ---------------------------------------------------------

\* The goroutine starts and enters the select statement, whose channel
\* operands are the channels doneCh and sendCh name at this moment.
SendLoopSelect(k) ==
    /\ Running
    /\ UNCHANGED <<permVars, fsVars, libVars>>
    /\ sl[k].pc = "start"
    /\ sl' = [sl EXCEPT ![k].pc = "select", ![k].done = doneEpoch,
                        ![k].send = sendEpoch]
    /\ UNCHANGED <<ctxDone, closed, conn, connState, doneEpoch, sendEpoch,
                   doneClosed, sendCh, envInfoSent, mainPc, attempt, delay, runErr, stopCloses, nCloses,
                   hb, ticks, wire, taskVars>>

\* One of ctx.Done(), stopCh, doneCh is ready and is the case chosen.
SendLoopExit(k) ==
    /\ Running
    /\ UNCHANGED <<permVars, fsVars, libVars>>
    /\ sl[k].pc = "select"
    /\ ctxDone \/ closed \/ doneClosed[sl[k].done]
    /\ sl' = [sl EXCEPT ![k].pc = "exited"]
    /\ UNCHANGED <<ctxDone, closed, conn, connState, doneEpoch, sendEpoch,
                   doneClosed, sendCh, envInfoSent, mainPc, attempt, delay, runErr, stopCloses, nCloses,
                   hb, ticks, wire, taskVars>>

\* The receive from sendCh is ready and is the case chosen.
SendLoopRecv(k) ==
    /\ Running
    /\ UNCHANGED <<permVars, fsVars, libVars>>
    /\ sl[k].pc = "select"
    /\ sendCh[sl[k].send] # <<>>
    /\ sl' = [sl EXCEPT ![k].pc = "write", ![k].msg = Head(sendCh[sl[k].send])]
    /\ sendCh' = [sendCh EXCEPT ![sl[k].send] = Tail(@)]
    /\ UNCHANGED <<ctxDone, closed, conn, connState, doneEpoch, sendEpoch,
                   doneClosed, envInfoSent, mainPc, attempt, delay, runErr, stopCloses, nCloses, hb, ticks, wire,
                   taskVars>>

\* The envelope is written to the connection c.conn names now.  The peer
\* receives it on an open connection, never on a closed one, and on a lost
\* one when the link still carries writes (a passed read deadline leaves
\* it so).  The loop then enters the select statement again, reading
\* doneCh and sendCh anew.
SendLoopWrite(k) ==
    /\ Running
    /\ UNCHANGED <<permVars, fsVars, libVars>>
    /\ sl[k].pc = "write"
    /\ \/ /\ conn # 0
          /\ connState[conn] \in {"open", "lost"}
          /\ ~writeFailed[conn]
          /\ wire' = [wire EXCEPT ![conn] = Append(@, sl[k].msg)]
       \/ /\ conn = 0 \/ connState[conn] \in {"lost", "closed"} \/ writeFailed[conn]
          /\ UNCHANGED wire
    /\ sl' = [sl EXCEPT ![k].pc = "select", ![k].msg = <<>>,
                        ![k].done = doneEpoch, ![k].send = sendEpoch]
    /\ UNCHANGED <<ctxDone, closed, conn, connState, doneEpoch, sendEpoch,
                   doneClosed, sendCh, envInfoSent, mainPc, attempt, delay, runErr, stopCloses, nCloses,
                   hb, ticks, taskVars>>

\* WriteMessage fails on the open connection c.conn names, because the
\* write deadline passed with the peer not taking the bytes; every later
\* write on that connection fails too.  The error is logged and the loop
\* enters the select statement again.
SendLoopWriteFail(k) ==
    /\ Running
    /\ UNCHANGED <<permVars, fsVars, rd, lw, lo, zp, welcome, mcp, cfg, mcpCalls, sums, sessInfo, web, lastWait>>
    /\ sl[k].pc = "write"
    /\ conn # 0
    /\ connState[conn] = "open"
    /\ ~writeFailed[conn]
    /\ writeFailed' = [writeFailed EXCEPT ![conn] = TRUE]
    /\ sl' = [sl EXCEPT ![k].pc = "select", ![k].msg = <<>>,
                        ![k].done = doneEpoch, ![k].send = sendEpoch]
    /\ UNCHANGED <<ctxDone, closed, conn, connState, doneEpoch, sendEpoch,
                   doneClosed, sendCh, envInfoSent, mainPc, attempt, delay, runErr,
                   stopCloses, nCloses, hb, ticks, wire, taskVars>>

\* ---- heartbeatLoop ----------------------------------------------------

\* sendHeartbeat up to the unlock: the payload carries the environment
\* snapshot iff envInfoSent was false, and the flag is set.
sendHeartbeat(k) ==
    /\ hb' = [hb EXCEPT ![k].pc = "send", ![k].msg = Heartbeat(~envInfoSent)]
    /\ envInfoSent' = TRUE

\* The initial heartbeat.
HeartbeatStart(k) ==
    /\ Running
    /\ UNCHANGED <<permVars, fsVars, libVars>>
    /\ hb[k].pc = "start"
    /\ sendHeartbeat(k)
    /\ UNCHANGED <<ctxDone, closed, conn, connState, doneEpoch, sendEpoch,
                   doneClosed, sendCh, mainPc, attempt, delay, runErr, stopCloses, nCloses, sl, ticks,
                   wire, taskVars>>

\* sendHeartbeat after the unlock: SendPayload.  The loop then enters the
\* select statement, reading doneCh.
HeartbeatSend(k) ==
    /\ Running
    /\ UNCHANGED <<permVars, fsVars, libVars>>
    /\ hb[k].pc = "send"
    /\ sendCh' = Send(hb[k].msg)
    /\ hb' = [hb EXCEPT ![k].pc = "select", ![k].msg = <<>>,
                        ![k].done = doneEpoch]
    /\ UNCHANGED <<ctxDone, closed, conn, connState, doneEpoch, sendEpoch,
                   doneClosed, envInfoSent, mainPc, attempt, delay, runErr, stopCloses, nCloses, sl, ticks,
                   wire, taskVars>>

HeartbeatExit(k) ==
    /\ Running
    /\ UNCHANGED <<permVars, fsVars, libVars>>
    /\ hb[k].pc = "select"
    /\ ctxDone \/ closed \/ doneClosed[hb[k].done]
    /\ hb' = [hb EXCEPT ![k].pc = "exited"]
    /\ UNCHANGED <<ctxDone, closed, conn, connState, doneEpoch, sendEpoch,
                   doneClosed, sendCh, envInfoSent, mainPc, attempt, delay, runErr, stopCloses, nCloses,
                   sl, ticks, wire, taskVars>>

\* The ticker fires and is the case chosen.
HeartbeatTick(k) ==
    /\ Running
    /\ UNCHANGED <<permVars, fsVars, libVars>>
    /\ hb[k].pc = "select"
    /\ ticks < MaxBeats
    /\ ticks' = ticks + 1
    /\ sendHeartbeat(k)
    /\ UNCHANGED <<ctxDone, closed, conn, connState, doneEpoch, sendEpoch,
                   doneClosed, sendCh, mainPc, attempt, delay, runErr, stopCloses, nCloses, sl, wire,
                   taskVars>>

(***************************************************************************)
(* The task handler (ws/handler.go).  execs lists the task.request         *)
(* envelopes in the order readLoop read them; execs[e].pc is the position  *)
(* of the goroutines serving the e-th of them, execs[e].calls counts the   *)
(* calls of the cancel function made for it, execs[e].drain says that its  *)
(* execution returned while the signal goroutine was in WaitForTasks(30 s).*)
(* Task ids are numbered in the order of their first appearance.           *)
(***************************************************************************)
Execs == 1..Len(execs)

Registered == {e \in Execs : \E t \in TaskIds : runningTask[t] = e}

\* A slip: the context of an execution is a child of context.Background().
TaskCtxDetached(e) == execs[e].calls > 0

\* The context of an execution is a child of the context readLoop was given.
TaskCtxDone(e) == ctxDone \/ execs[e].calls > 0

\* readLoop reads a task.request and starts its handler goroutine.
ReadRequest(t) ==
    /\ Running
    /\ UNCHANGED <<permVars, fsVars, libVars>>
    /\ mainPc = "readMessage"
    /\ Readable
    /\ Len(execs) < MaxExec
    /\ t <= Len(execs) + 1
    /\ execs' = Append(execs, [task |-> t, pc |-> "handle", calls |-> 0,
                               drain |-> FALSE, err |-> "none"])
    /\ mainPc' = "readCheck"
    /\ UNCHANGED <<ctxDone, closed, conn, connState, doneEpoch, sendEpoch,
                   doneClosed, sendCh, envInfoSent, attempt, delay, runErr, stopCloses, nCloses, sl, hb,
                   ticks, wire, runningTask, taskWg, cancels, nCancels, sigPc>>

\* readLoop reads a task.cancel and starts its handler goroutine.
ReadCancel(t) ==
    /\ Running
    /\ UNCHANGED <<permVars, fsVars, libVars>>
    /\ mainPc = "readMessage"
    /\ Readable
    /\ nCancels < MaxCancels
    /\ cancels' = [cancels EXCEPT ![t] = @ + 1]
    /\ nCancels' = nCancels + 1
    /\ mainPc' = "readCheck"
    /\ UNCHANGED <<ctxDone, closed, conn, connState, doneEpoch, sendEpoch,
                   doneClosed, sendCh, envInfoSent, attempt, delay, runErr, stopCloses, nCloses, sl, hb,
                   ticks, wire, execs, runningTask, taskWg, sigPc>>

\* handleTaskRequest up to the unlock: the cancel function is stored.
handleTaskRequest(e) ==
    /\ Running
    /\ UNCHANGED <<permVars, fsVars, libVars>>
    /\ e \in Execs
    /\ execs[e].pc = "handle"
    /\ runningTask' = [runningTask EXCEPT ![execs[e].task] = e]
    /\ execs' = [execs EXCEPT ![e].pc = "add"]
    /\ UNCHANGED <<connVars, taskWg, cancels, nCancels, sigPc>>

\* handleTaskRequest from taskWg.Add(1): the execution goroutine starts.
StartExecution(e) ==
    /\ Running
    /\ UNCHANGED <<permVars, fsVars, libVars>>
    /\ e \in Execs
    /\ execs[e].pc = "add"
    /\ taskWg' = taskWg + 1
    /\ execs' = [execs EXCEPT ![e].pc = "running"]
    /\ UNCHANGED <<connVars, runningTask, cancels, nCancels, sigPc>>

\* What a task.request asks for: an operation tag, args that parse or do
\* not, and the error the workspace operation returns when it is reached
\* ("nil": it returns a result).
WsErrors == {"nil", "command denied by rule", "path is outside workspace root",
             "read error"}

Requests == [op : {"read", "bash", "bogus"}, argsParse : BOOLEAN, wsErr : WsErrors]

OkRequest == [op |-> "bash", argsParse |-> TRUE, wsErr |-> "nil"]

\* Handler.executeTask: the error it returns ("nil" with a result).
executeTask(req) ==
    IF req.op = "bogus" THEN "unknown operation"
    ELSE IF ~req.argsParse THEN "invalid args"
    ELSE req.wsErr

\* A slip: every execution is reported as a success.
executeAndSendResultAlwaysOk(e, req) ==
    /\ Running
    /\ UNCHANGED <<permVars, fsVars, libVars>>
    /\ e \in Execs
    /\ execs[e].pc = "running"
    /\ sendCh' = Send(sendTaskResult(execs[e].task, e, TRUE, "", 0))
    /\ execs' = [execs EXCEPT ![e].pc = "unregister", ![e].drain = (sigPc = "wait30"),
                              ![e].err = executeTask(req)]
    /\ UNCHANGED <<ctxDone, closed, conn, connState, doneEpoch, sendEpoch,
                   doneClosed, envInfoSent, mainPc, attempt, delay, runErr, stopCloses, nCloses, sl, hb,
                   ticks, wire, runningTask, taskWg, cancels, nCancels, sigPc>>

\* executeAndSendResult, for a request req: executeTask returns and
\* sendTaskResult hands the result to Client.SendPayload, whose error
\* sendPayload only logs.
executeAndSendResult(e, req) ==
    /\ Running
    /\ UNCHANGED <<permVars, fsVars, libVars>>
    /\ e \in Execs
    /\ execs[e].pc = "running"
    /\ LET err == executeTask(req)
       IN /\ sendCh' = Send(IF err # "nil"
                               THEN sendTaskResult(execs[e].task, e, FALSE, err, 1)
                               ELSE sendTaskResult(execs[e].task, e, TRUE, "", 0))
          /\ execs' = [execs EXCEPT ![e].pc = "unregister",
                                    ![e].drain = (sigPc = "wait30"),
                                    ![e].err = err]
    /\ UNCHANGED <<ctxDone, closed, conn, connState, doneEpoch, sendEpoch,
                   doneClosed, envInfoSent, mainPc, attempt, delay, runErr, stopCloses, nCloses, sl, hb,
                   ticks, wire, runningTask, taskWg, cancels, nCancels, sigPc>>

\* The deferred unregisterTask: the entry under the task id is deleted.
unregisterTask(e) ==
    /\ Running
    /\ UNCHANGED <<permVars, fsVars, libVars>>
    /\ e \in Execs
    /\ execs[e].pc = "unregister"
    /\ runningTask' = [runningTask EXCEPT ![execs[e].task] = 0]
    /\ execs' = [execs EXCEPT ![e].pc = "wgDone"]
    /\ UNCHANGED <<connVars, taskWg, cancels, nCancels, sigPc>>

\* The deferred taskWg.Done().
TaskWgDone(e) ==
    /\ Running
    /\ UNCHANGED <<permVars, fsVars, libVars>>
    /\ e \in Execs
    /\ execs[e].pc = "wgDone"
    /\ taskWg' = taskWg - 1
    /\ execs' = [execs EXCEPT ![e].pc = "done"]
    /\ UNCHANGED <<connVars, runningTask, cancels, nCancels, sigPc>>

\* A cancel that also deletes the entry it found.
handleTaskCancelUnregister(t) ==
    /\ Running
    /\ UNCHANGED <<permVars, fsVars, libVars>>
    /\ cancels[t] > 0
    /\ cancels' = [cancels EXCEPT ![t] = @ - 1]
    /\ execs' = IF runningTask[t] # 0
                   THEN [execs EXCEPT ![runningTask[t]].calls = @ + 1]
                   ELSE execs
    /\ runningTask' = [runningTask EXCEPT ![t] = 0]
    /\ UNCHANGED <<connVars, taskWg, nCancels, sigPc>>

\* handleTaskCancel: the cancel function stored under the id, if any, is
\* called.
handleTaskCancel(t) ==
    /\ Running
    /\ UNCHANGED <<permVars, fsVars, libVars>>
    /\ cancels[t] > 0
    /\ cancels' = [cancels EXCEPT ![t] = @ - 1]
    /\ execs' = IF runningTask[t] # 0
                   THEN [execs EXCEPT ![runningTask[t]].calls = @ + 1]
                   ELSE execs
    /\ UNCHANGED <<connVars, runningTask, taskWg, nCancels, sigPc>>

\* CancelAllTasks: every stored cancel function is called.
CancelAllTasks ==
    [e \in Execs |-> IF e \in Registered THEN [execs[e] EXCEPT !.calls = @ + 1]
                                         ELSE execs[e]]

(***************************************************************************)
(* The signal goroutine of runRunner (cmd/main.go).                        *)
(***************************************************************************)
\* A signal arrives: cancel().
Signal ==
    /\ Running
    /\ UNCHANGED <<permVars, fsVars, libVars>>
    /\ sigPc = "idle"
    /\ ctxDone' = TRUE
    /\ sigPc' = "count"
    /\ UNCHANGED <<closed, conn, connState, doneEpoch, sendEpoch, doneClosed,
                   sendCh, envInfoSent, mainPc, attempt, delay, runErr, stopCloses, nCloses, sl, hb, ticks, wire,
                   execs, runningTask, taskWg, cancels, nCancels>>

\* RunningTaskCount() decides whether to wait.
SignalCount ==
    /\ Running
    /\ UNCHANGED <<permVars, fsVars, libVars>>
    /\ sigPc = "count"
    /\ sigPc' = IF \E t \in TaskIds : runningTask[t] # 0 THEN "wait30" ELSE "close"
    /\ UNCHANGED <<connVars, execs, runningTask, taskWg, cancels, nCancels>>

\* WaitForTasks(30 s) returns true: the counter is zero.
WaitDrained ==
    /\ Running
    /\ UNCHANGED <<permVars, fsVars, libVars>>
    /\ sigPc = "wait30"
    /\ taskWg = 0
    /\ sigPc' = "close"
    /\ UNCHANGED <<connVars, execs, runningTask, taskWg, cancels, nCancels>>

\* WaitForTasks(30 s) returns false: the 30 s passed with the counter
\* above zero.
WaitExpired ==
    /\ Running
    /\ UNCHANGED <<permVars, fsVars, libVars>>
    /\ sigPc = "wait30"
    /\ taskWg > 0
    /\ sigPc' = "cancelAll"
    /\ UNCHANGED <<connVars, execs, runningTask, taskWg, cancels, nCancels>>

SignalCancelAll ==
    /\ Running
    /\ UNCHANGED <<permVars, fsVars, libVars>>
    /\ sigPc = "cancelAll"
    /\ execs' = CancelAllTasks
    /\ sigPc' = "wait5"
    /\ UNCHANGED <<connVars, runningTask, taskWg, cancels, nCancels>>

\* WaitForTasks(5 s) returns, with either result.
WaitCleanup ==
    /\ Running
    /\ UNCHANGED <<permVars, fsVars, libVars>>
    /\ sigPc = "wait5"
    /\ sigPc' = "close"
    /\ UNCHANGED <<connVars, execs, runningTask, taskWg, cancels, nCancels>>

\* client.Close().
SignalClose ==
    /\ Running
    /\ UNCHANGED <<permVars, fsVars, libVars>>
    /\ sigPc = "close"
    /\ Close
    /\ sigPc' = "done"
    /\ UNCHANGED <<ctxDone, conn, doneEpoch, sendEpoch, doneClosed, sendCh,
                   envInfoSent, mainPc, attempt, delay, runErr, nCloses, sl, hb,
                   ticks, wire, execs, runningTask, taskWg, cancels, nCancels>>

(***************************************************************************)
(* Specifications of the session.  All run the main goroutine.  Spec adds  *)
(* the send loops, the peer's task.request envelopes, the goroutines that  *)
(* serve them and the signal goroutine, on TaskConns connections with the  *)
(* heartbeat loops never scheduled and no task.cancel sent.  SpecConn adds *)
(* the send loops and the heartbeat loops, on MaxConns connections with no *)
(* task sent and no signal delivered.  SpecCancel adds the peer's          *)
(* task.request and task.cancel envelopes and the goroutines that serve    *)
(* them, with no signal delivered and no loop scheduled.                   *)
(***************************************************************************)
MainNextW(limit, fails, kinds) ==
    \/ ReconnectSelect
    \/ \E w \in kinds : ConnectOk(limit, w)
    \/ ConnectFail(fails)
    \/ Backoff
    \/ Run
    \/ ReadCheck
    \/ ReadError
    \/ ReadOther
    \/ CheckClosed
    \/ ResetEnvInfoSent
    \/ ResetDoneCh
    \/ ResetSendCh

\* The main goroutine against a peer that opens every connection with a
\* welcome envelope.
MainNext(limit, fails) == MainNextW(limit, fails, {"ok"})

SendLoopNext ==
    \E k \in Conns :
        \/ SendLoopSelect(k)
        \/ SendLoopExit(k)
        \/ SendLoopRecv(k)
        \/ SendLoopWrite(k)

HeartbeatNext ==
    \E k \in Conns :
        \/ HeartbeatStart(k)
        \/ HeartbeatSend(k)
        \/ HeartbeatExit(k)
        \/ HeartbeatTick(k)

CancelNext ==
    \/ \E t \in TaskIds : ReadCancel(t)
    \/ \E t \in TaskIds : handleTaskCancel(t)

TaskNext(reqs) ==
    \/ \E t \in TaskIds : ReadRequest(t)
    \/ \E e \in 1..MaxExec :
        \/ handleTaskRequest(e)
        \/ StartExecution(e)
        \/ \E req \in reqs : executeAndSendResult(e, req)
        \/ unregisterTask(e)
        \/ TaskWgDone(e)

SignalNext ==
    \/ Signal
    \/ SignalCount
    \/ SignalClose

DrainNext ==
    \/ WaitDrained
    \/ WaitExpired
    \/ SignalCancelAll
    \/ WaitCleanup

Init == SessInit /\ PermIdle /\ FsIdle /\ LibIdle

Next ==
    \/ MainNext(TaskConns, MaxFailures)
    \/ SendLoopNext
    \/ TaskNext({OkRequest})
    \/ SignalNext
    \/ DrainNext

Spec == Init /\ [][Next]_vars

NextConn ==
    \/ MainNext(MaxConns, MaxFailures)
    \/ SendLoopNext
    \/ HeartbeatNext

SpecConn == Init /\ [][NextConn]_vars

NextCancel ==
    \/ MainNext(TaskConns, MaxFailures)
    \/ TaskNext({OkRequest})
    \/ CancelNext

SpecCancel == Init /\ [][NextCancel]_vars

\* SpecTask runs the main goroutine, the send loops, the peer's task.request
\* envelopes, of every kind of the model, and the goroutines that serve
\* them, with no signal delivered and no task.cancel sent.
NextTask ==
    \/ MainNext(TaskConns, MaxFailures)
    \/ SendLoopNext
    \/ TaskNext(Requests)

SpecTask == Init /\ [][NextTask]_vars

\* SpecRetry runs the main goroutine with up to MaxRetries failed dials in a
\* row, and the signal goroutine, with no loop scheduled and no task sent.
NextRetry ==
    \/ MainNext(MaxConns, MaxRetries)
    \/ SignalNext

SpecRetry == Init /\ [][NextRetry]_vars

\* SpecClose runs the main goroutine on TaskConns connections with up to
\* MaxRetries failed dials in a row, the send and heartbeat loops, and up
\* to MaxCloses calls of Close at any moment; the context stays live.  The
\* main goroutine keeps running: a dial, a read on a closed connection and
\* the backoff timer all end.
NextClose ==
    \/ MainNext(TaskConns, MaxRetries)
    \/ SendLoopNext
    \/ HeartbeatNext
    \/ CloseCall

SpecClose ==
    Init /\ [][NextClose]_vars /\ WF_vars(MainNext(TaskConns, MaxRetries))

(***************************************************************************)
(* Properties of the session (Spec, SpecConn)                              *)
(***************************************************************************)
\* How often the peer received the task.result of the e-th task.request.
Emitted(e) ==
    Cardinality({<<k, i>> \in Conns \X (1..MaxExec) :
                    /\ i <= Len(wire[k])
                    /\ wire[k][i] = TaskResult(execs[e].task, e)})

\* The task.result of the e-th task.request is buffered in a sendCh channel
\* or held by a send loop that has not written it yet.
Pending(e) ==
    \/ \E c \in Chans : \E i \in 1..Len(sendCh[c]) :
           sendCh[c][i] = TaskResult(execs[e].task, e)
    \/ \E k \in Conns : sl[k].msg = TaskResult(execs[e].task, e)

Returned(e) == execs[e].pc \in {"unregister", "wgDone", "done"}

\* C1: every task.request that parsed gets exactly one task.result on the
\* session, never zero and never two: at no time has the peer received two,
\* and once the execution has returned and its result is in no queue and in
\* no send loop's hands, the peer has received one.
C1_ExactlyOneResult ==
    \A e \in Execs :
        /\ Emitted(e) <= 1
        /\ (Returned(e) /\ ~Pending(e)) => Emitted(e) = 1

\* The signal goroutine found tasks in flight and is in WaitForTasks(30 s).
DrainWindow == sigPc = "wait30"

\* C9: graceful drain.  While the signal goroutine waits up to 30 s for the
\* tasks in flight, no running task has its context cancelled; the process
\* does not exit during that wait; and at exit the peer has received the
\* result of every task that returned during the wait.
C9_GracefulDrain ==
    /\ \A e \in Execs :
           (DrainWindow /\ execs[e].pc = "running") => ~TaskCtxDone(e)
    /\ ~Running => ~DrainWindow
    /\ \A e \in Execs :
           (~Running /\ execs[e].drain) => Emitted(e) = 1

EnvHeartbeats(k) ==
    {i \in 1..Len(wire[k]) : wire[k][i].type = "heartbeat" /\ wire[k][i].env}

\* C10: on every connection at most one heartbeat carries the environment
\* snapshot.
C10_AtMostOneEnvPerConn ==
    \A k \in Conns : Cardinality(EnvHeartbeats(k)) <= 1

\* The positions of the heartbeats the peer received on connection k.
HeartbeatsOn(k) == {i \in 1..Len(wire[k]) : wire[k][i].type = "heartbeat"}

\* C11: on every connection the first heartbeat written to it carries the
\* environment snapshot and every later heartbeat on it carries none.  A
\* connection that is open has carried every envelope written to it, so on
\* an open connection wire lists the writes.
C11_FirstHeartbeatCarriesEnv ==
    \A k \in Conns : connState[k] = "open" =>
        \A i \in HeartbeatsOn(k) :
            wire[k][i].env <=> (\A j \in HeartbeatsOn(k) : i <= j)

\* The task.result envelopes of the e-th task.request, wherever they are.
ResultsOf(e) ==
    LET all == UNION ({{sendCh[c][i] : i \in 1..Len(sendCh[c])} : c \in Chans}
                      \cup {{wire[k][i] : i \in 1..Len(wire[k])} : k \in Conns}
                      \cup {{sl[k].msg} : k \in Conns})
    IN {m \in all \ {<<>>} : m.type = "task.result" /\ m.exec = e}

Failed(e) == execs[e].err \notin {"none", "nil"}

\* C20: a task whose execution fails, for whichever reason, hands to Send a
\* task.result with success = false, exit code 1 and the error text, no
\* other task.result of it exists, and once its goroutine has run
\* unregisterTask the registry does not hold its cancel function, as for a
\* task that succeeded.
C20_FailureResult ==
    /\ [](\A e \in Execs : \A m \in ResultsOf(e) :
              /\ m.task = execs[e].task
              /\ Failed(e) =>
                    ~m.success /\ m.exitCode = 1 /\ m.error = execs[e].err)
    /\ [](\A e \in Execs :
              execs[e].pc \in {"wgDone", "done"} => runningTask[execs[e].task] # e)
    /\ [][\A e \in Execs : (execs[e].pc = "running" /\ Failed(e)') =>
              /\ execs'[e].pc = "unregister"
              /\ sendCh' = Send(sendTaskResult(execs[e].task, e, FALSE,
                                               execs'[e].err, 1))
       ]_vars

\* C20 witness: the peer has received the failure result of a task that was
\* denied by policy, and the task is gone from the registry.
C20_Witness ==
    \E e \in Execs :
        /\ execs[e].err = "command denied by rule"
        /\ execs[e].pc = "done"
        /\ runningTask[execs[e].task] = 0
        /\ \E k \in Conns : \E i \in 1..Len(wire[k]) :
              wire[k][i] = sendTaskResult(execs[e].task, e, FALSE,
                                          "command denied by rule", 1)

\* The step in which the execution of the e-th task.request hands its
\* result to Send.
SendStep(e) == execs[e].pc = "running" /\ execs'[e].pc = "unregister"

\* C18: Send never blocks and never overfills.  No sendCh channel ever
\* holds more than its capacity; an execution that has its result can always
\* take the Send step; the step appends the envelope when there is room,
\* and leaves every queue as it is (the envelope is refused with "send
\* channel full") when the queue already holds its capacity.
C18_SendNeverBlocks ==
    /\ [](\A c \in Chans : Len(sendCh[c]) <= SendChCap)
    /\ [](\A e \in Execs : (Running /\ execs[e].pc = "running") =>
                               ENABLED executeAndSendResult(e, OkRequest))
    /\ [][\A e \in Execs : SendStep(e) =>
              sendCh' = IF Len(sendCh[sendEpoch]) >= SendChCap
                           THEN sendCh
                           ELSE [sendCh EXCEPT ![sendEpoch] =
                                    Append(@, TaskResult(execs[e].task, e))]
       ]_vars

\* C18 witness: the queue is full with the result of the first execution,
\* no send loop has taken anything, and the second execution has returned
\* from Send with its result in no queue: it was refused.
C18_Witness ==
    /\ Len(execs) = 2
    /\ Len(sendCh[sendEpoch]) = SendChCap
    /\ sendCh[sendEpoch][1] = TaskResult(execs[1].task, 1)
    /\ \A k \in Conns : sl[k].pc \in {"none", "start"}
    /\ execs[2].pc = "unregister"
    /\ ~Pending(2)

\* A step of a task.cancel handler goroutine, for task id t.
CancelStep(t) == cancels'[t] < cancels[t]

\* C16: task.cancel is idempotent and silent.  A step that handles a
\* task.cancel leaves the registry, every queue and the wire as they are.
\* When an execution is registered under the task id and its cancel function
\* has not been called, the step cancels the context of that execution and
\* of no other; when its cancel function has been called before, or when no
\* execution is registered under the id (unknown or finished task), no
\* context changes from live to cancelled.
C16_CancelIdempotentSilent ==
    [][\A t \in TaskIds : CancelStep(t) =>
          /\ runningTask' = runningTask
          /\ sendCh' = sendCh /\ wire' = wire /\ sl' = sl
          /\ Len(execs') = Len(execs)
          /\ \A e \in Execs :
                /\ execs'[e].pc = execs[e].pc
                /\ TaskCtxDone(e)' <=> (TaskCtxDone(e) \/ runningTask[t] = e)
       ]_vars

\* C16 witness: two task.cancel envelopes for task 1 were handled while its
\* execution was registered, and the execution is still running.
C16_Witness ==
    /\ execs # <<>>
    /\ execs[1].task = 1
    /\ execs[1].pc = "running"
    /\ execs[1].calls = 2
    /\ runningTask[1] = 1
    /\ cancels[1] = 0

\* C15: for every task id at most one execution is running at a time, and
\* while an execution is running the registry entry under its task id is
\* its own cancel function; a second task.request with the same task id
\* changes neither, while the first runs or after it has returned.
C15_OneExecutionPerTask ==
    /\ \A e1, e2 \in Execs :
           (e1 # e2 /\ execs[e1].task = execs[e2].task) =>
               ~(execs[e1].pc = "running" /\ execs[e2].pc = "running")
    /\ \A e \in Execs :
           execs[e].pc = "running" => runningTask[execs[e].task] = e

\* The loop has been started and has not returned.
Live(l) == l.pc \notin {"none", "exited"}

\* C14: once a later connection is established, every earlier one has been
\* closed and its send loop and heartbeat loop have returned, so that at
\* most one connection is open and only the loops of the current connection
\* take envelopes from the current queue and write to the current connection.
C14_OneLiveConnection ==
    \A k \in Conns : k < conn =>
        /\ connState[k] = "closed"
        /\ ~Live(sl[k])
        /\ ~Live(hb[k])

(***************************************************************************)
(* Properties of the reconnect loop (SpecRetry)                            *)
(***************************************************************************)
\* C12: the wait after the n-th failed dial in a row is the initial delay
\* doubled n - 1 times and held at maxReconnectDelay: it starts at 1 s,
\* doubles after each failure, never decreases and never exceeds 5 min.
C12_BackoffDelays ==
    mainPc = "backoff" =>
        /\ attempt >= 1
        /\ delay = IF initialReconnectDelay * 2 ^ (attempt - 1) > maxReconnectDelay
                      THEN maxReconnectDelay
                      ELSE initialReconnectDelay * 2 ^ (attempt - 1)
        /\ delay <= maxReconnectDelay

\* C12 witness: the wait after the tenth failure in a row is the ceiling.
C12_Witness ==
    /\ mainPc = "backoff"
    /\ attempt = 10
    /\ delay = maxReconnectDelay

\* C13: RunWithReconnect has returned the fatal error exactly when
\* maxReconnectAttempts dials in a row have failed, and a connection that
\* was established leaves the failure count and the delay at their initial
\* values.
C13_GiveUpAfterTen ==
    /\ runErr = "fatal" <=> attempt = maxReconnectAttempts
    /\ mainPc = "run" => attempt = 0 /\ delay = initialReconnectDelay

(***************************************************************************)
(* Properties of Close (SpecClose)                                         *)
(***************************************************************************)
\* C17: Close is idempotent.  The stop channel is closed at most once
\* (exactly once as soon as Close was called), the flag stays set, a call
\* that finds the flag set changes nothing, a Send after Close leaves the
\* queue as it is or one envelope longer, and once the flag is set
\* RunWithReconnect dials no more and eventually returns nil.
C17_CloseIdempotent ==
    /\ [](stopCloses = IF closed THEN 1 ELSE 0)
    /\ [][closed => closed']_vars
    /\ [][(closed /\ nCloses' # nCloses) =>
              UNCHANGED <<closed, stopCloses, connState, conn, mainPc, sendCh>>]_vars
    /\ [][(closed /\ mainPc = "loop") => mainPc' # "connect"]_vars
    /\ [](closed /\ ~Running => runErr = "nil")
    /\ (closed ~> ~Running)

(***************************************************************************)
(* The workspace helpers, each under a specification of its own.           *)
(***************************************************************************)
\* SpecRead: reads of files of every size of the model, with every offset
\* and limit of the integer type.
NextRead ==
    \E size \in 0..MaxFileSize, offset \in Ints, limit \in Ints :
        ReadFileContent(size, offset, limit)

SpecRead == Init /\ [][NextRead]_vars

\* C21: read returns exactly the bytes [o, min(o + limit, size)) of the file
\* with o = max(offset, 0), the whole tail from o when limit <= 0, and empty
\* content with the true size when o >= size, for every offset and limit
\* of the integer type, o + limit taken as a number, not modulo 2^IntBits.
C21_ReadRange ==
    rd.ret # "none" =>
        LET o == IF rd.offset < 0 THEN 0 ELSE rd.offset
            end == IF rd.limit <= 0 THEN rd.size ELSE Min(o + rd.limit, rd.size)
        IN /\ rd.ret = "result"
           /\ rd.total = rd.size
           /\ rd.content = IF o >= rd.size THEN <<>>
                            ELSE SubBytes(FileBytes(rd.size), o, end - o)

\* SpecWriter: one bounded writer and every sequence of chunks offered to it.
NextWriter == \E p \in Chunks : WriteChunk(p)

SpecWriter == Init /\ [][NextWriter]_vars

\* C22: after any sequence of Write calls the builder under the bounded
\* writer holds exactly the first min(bytes offered, limit) bytes offered,
\* and every Write call reported n = len(p) and a nil error.
C22_LimitedWriter ==
    /\ lw.buf = SubSeq(lw.offered, 1, Min(Len(lw.offered), maxOutputSize))
    /\ lw.calls > 0 => lw.n = lw.plen /\ lw.err = "nil"

\* C22 witness: a Write call of which one byte was kept and one dropped,
\* and a later one that was dropped whole.
C22_Witness ==
    /\ Len(lw.offered) = MaxOffered
    /\ Len(lw.buf) = maxOutputSize
    /\ lw.calls = 3
    /\ lw.plen = 1

\* SpecOutput: Process calls, one after the other, on every content and in
\* every workspace of the model.
InitOutput ==
    /\ fs \in OutputFs
    /\ fsOp = "none" /\ fsPath = <<>> /\ fsRet = NoRet /\ fsErr = "nil" /\ fsReal = {}
    /\ PermIdle /\ SessInit /\ LibIdle

NextOutput ==
    \/ \E content \in Contents : ProcessCall(content)
    \/ ProcessReturn

SpecOutput == InitOutput /\ [][NextOutput]_vars

\* C23: Process returns a content of at most DefaultMaxOutputSize chars
\* unchanged, with truncated = false and total_size = len(content); a
\* longer one is written in full to a file below .work/outputs of the
\* workspace root and returned with truncated = true, that file's path,
\* total_size = len(content) and a preview of at most DefaultPreviewLines
\* lines and DefaultPreviewSize chars; when the file cannot be written the
\* call returns truncated = true, no file path and the text "Could not
\* save full content.".
C23_Process ==
    lo.ret # "none" =>
        /\ lo.ret = "result"
        /\ lo.total = Len(lo.arg)
        /\ Len(lo.arg) <= DefaultMaxOutputSize =>
              lo.content = lo.arg /\ ~lo.truncated /\ lo.filePath = <<>>
        /\ Len(lo.arg) > DefaultMaxOutputSize =>
              /\ lo.truncated
              /\ lo.msg.previewLines <= DefaultPreviewLines
              /\ Len(Split(lo.msg.preview)) <= DefaultPreviewLines
              /\ Len(lo.msg.preview) <= DefaultPreviewSize
              /\ HasPrefix(lo.arg, lo.msg.preview)
              /\ \/ /\ lo.filePath # <<>>
                    /\ lo.msg.path = lo.filePath
                    /\ HasPrefix(lo.filePath, OutputsDir)
                    /\ lo.file.data = lo.arg
                    /\ lo.file.path = root \o lo.filePath
                    /\ fs[lo.file.path].type = "file"
                 \/ /\ lo.filePath = <<>>
                    /\ lo.file = NoFile
                    /\ lo.msg.note = "Could not save full content."

\* SpecZip: one sync_skill call, for every skill directory, archive and
\* workspace of the model.
NextZip ==
    \/ \E skillDir \in SkillDirs, zipOk \in BOOLEAN : SyncSkill(skillDir, zipOk)
    \/ \E e \in ZipEntries : UnzipEntry(e)
    \/ UnzipDone

\* /w/l points to a directory inside the root, to one outside or to the
\* sibling of the root.
InitZip ==
    /\ fs \in {(<<N_w, N_l>> :> Link(t)) @@ BaseFs : t \in {<<N_w, N_d>>, <<N_o>>, <<N_w2>>}}
    /\ fsOp = "none" /\ fsPath = <<>> /\ fsRet = NoRet /\ fsErr = "nil" /\ fsReal = {}
    /\ PermIdle /\ SessInit /\ LibIdle

SpecZip == InitZip /\ [][NextZip]_vars

\* The entry last read is one the claim wants refused: its cleaned name
\* begins with ".." or is absolute, or its target is not under the
\* destination.
BadEntry ==
    \/ zp.last.abs
    \/ HasPrefix(RelStr(zp.last.name), <<".", ".">>)
    \/ ~Under(JoinAbs(zp.dest, zp.last.name), zp.dest)

\* C24: sync_skill writes nothing for an archive entry outside the skill
\* directory, and an entry whose cleaned name begins with ".." or is
\* absolute, or whose target is not under the directory, ends the unpack
\* with an error and nothing written for it.
C24_UnzipContained ==
    /\ \A p \in zp.wrote : Under(p, zp.destReal)
    /\ (zp.n > 0 /\ BadEntry) =>
          zp.pc = "done" /\ zp.err # "nil" /\ zp.lastWrote = {}

\* C24 witness: the first entry was unpacked below the directory and the
\* second, "a/../../d2/a" cleaned to "../d2/a", was refused.
C24_Witness ==
    /\ zp.n = 2
    /\ zp.wrote # {}
    /\ zp.last = [abs |-> FALSE, name |-> <<DotDot, N_d2, N_a>>]
    /\ zp.err = "invalid file path in zip"
    /\ zp.dest = root \o <<N_d>>

\* SpecWelcome: the main goroutine and the loops it starts, against a peer
\* whose first frame on a connection is a welcome envelope or is not.
NextWelcome ==
    \/ MainNextW(TaskConns, MaxFailures, WelcomeKinds)
    \/ SendLoopNext
    \/ HeartbeatNext

SpecWelcome == Init /\ [][NextWelcome]_vars

\* C25: the send and heartbeat loops of a connection are started only when
\* a welcome envelope was read as its first frame within the deadline; a
\* dial whose welcome is missing, late, malformed or of another type counts
\* as a failed attempt and goes to the backoff.
C25_WelcomeBeforeReady ==
    /\ [](\A k \in Conns :
              (sl[k].pc # "none" \/ hb[k].pc # "none") => welcome[k] = "ok")
    /\ [][(mainPc = "connect" /\ conn' = conn + 1 /\ welcome'[conn'] # "ok") =>
              (attempt' = attempt + 1 /\ mainPc' \in {"backoff", "returned"})]_vars

\* SpecWrite: the main goroutine and the loops of a connection on which
\* reads and writes can fail.  The main goroutine always gets on: a frame
\* arrives or the read deadline passes.
NextWrite ==
    \/ MainNext(TaskConns, MaxFailures)
    \/ SendLoopNext
    \/ HeartbeatNext
    \/ \E k \in Conns : SendLoopWriteFail(k)

SpecWrite ==
    Init /\ [][NextWrite]_vars /\ WF_vars(MainNext(TaskConns, MaxFailures))

\* C26: a read failure and a write failure on the current connection each
\* end that connection and lead to a new dial.
C26_FailureReconnects ==
    \A k \in Conns :
        /\ (connState[k] = "lost") ~> (mainPc = "connect")
        /\ writeFailed[k] ~> (connState[k] # "open" /\ mainPc = "connect")

\* SpecMcp: the callers of one ClientManager, every interleaving.
NextMcp ==
    \E c \in Callers :
        \/ \E server \in Servers, op \in {"CallTool", "ListTools"} : McpCall(c, server, op)
        \/ GetSession(c)
        \/ \E ok \in BOOLEAN : GetSessionConnect(c, ok)
        \/ \E ok \in BOOLEAN : SessionCall(c, ok)
        \/ invalidateSession(c)

SpecMcp == Init /\ [][NextMcp]_vars

\* C27: a session on which CallTool or ListTools failed is not in the cache
\* once invalidateSession has run, and the cache is then empty for that
\* server, so that the next GetSession connects; a cached session on
\* which a call ended well, and none has failed, stays the cached one, to
\* be reused by the next call, until a call on it fails.
C27_SessionCache ==
    /\ [](\A s \in Servers : mcp.sessions[s] \notin mcp.evicted)
    /\ [][\A c \in Callers :
              (mcp.callers[c].pc = "invalidate" /\ mcp'.callers[c].pc = "idle") =>
                  mcp'.sessions[mcp.callers[c].server] = 0]_vars
    /\ [](\A s \in Servers : mcp.good[s] # 0 => mcp.sessions[s] = mcp.good[s])

\* C29: no caller holds the manager's mutex while it connects to a tool
\* server or while its call on a session is in progress, and a caller
\* that wants a session of one server is not kept waiting by a connect to
\* another.
C29_NoLockAcrossNetwork ==
    /\ \A c \in Callers : mcp.callers[c].pc \in {"connect", "call"} => mcp.mu # c
    /\ \A c, d \in Callers :
          (/\ mcp.callers[c].pc = "getSession"
           /\ mcp.callers[d].pc = "connect"
           /\ mcp.callers[c].server # mcp.callers[d].server) => mcp.mu = 0

\* SpecConfig: Validate applied to every Config of the bounded sets.
NextConfig == \E key \in APIKeys, url \in APIURLs : ValidateConfig(key, url)

SpecConfig == Init /\ [][NextConfig]_vars

\* C28: Validate returns nil for a Config with a non-empty api_key and an
\* API_url that starts with ws:// or wss://; otherwise its error is
\* 'api_key is required' for an empty key, else 'API_url is required' for an
\* empty URL, else 'API_url must start with ws:// or wss://'.
C28_Validate ==
    cfg.called =>
        cfg.err = (IF cfg.APIKey = <<>> THEN "api_key is required"
                   ELSE IF cfg.APIURL = <<>> THEN "API_url is required"
                   ELSE IF ~(HasPrefix(cfg.APIURL, WS) \/ HasPrefix(cfg.APIURL, WSS))
                        THEN "API_url must start with ws:// or wss://"
                   ELSE "nil")

(***************************************************************************)
(* mcp.call envelopes (ws/handler.go, handleMCPCall).  mcpCalls[m] is the  *)
(* position of the goroutine serving the m-th of them.                     *)
(***************************************************************************)
MaxMcpCalls == 1

McpCalls == 1..Len(mcpCalls)

\* The context handleMCPCall hands to Workspace.MCPCall is the one readLoop
\* was given.
McpCtxDone(m) == ctxDone

\* Handler.sendMCPResult: the envelope it hands to SendPayload.
sendMCPResult(m, success, errMsg) ==
    [type |-> "mcp.result", env |-> FALSE, call |-> m, success |-> success,
     error |-> errMsg]

\* readLoop reads an mcp.call and handleMCPCall starts its goroutine.
ReadMcpCall ==
    /\ Running
    /\ mainPc = "readMessage"
    /\ Readable
    /\ Len(mcpCalls) < MaxMcpCalls
    /\ mcpCalls' = Append(mcpCalls, "running")
    /\ mainPc' = "readCheck"
    /\ UNCHANGED <<ctxDone, closed, conn, connState, doneEpoch, sendEpoch,
                   doneClosed, sendCh, envInfoSent, attempt, delay, runErr, stopCloses, nCloses, sl, hb,
                   ticks, wire, taskVars>>
    /\ UNCHANGED <<permVars, fsVars, rd, lw, lo, zp, welcome, writeFailed, mcp, cfg, sums, sessInfo, web, lastWait>>

\* The goroutine of handleMCPCall: MCPCall returns and the result is sent.
\* A call whose context is done does not return a result.
handleMCPCall(m, ok) ==
    /\ Running
    /\ m \in McpCalls
    /\ mcpCalls[m] = "running"
    /\ ok => ~McpCtxDone(m)
    /\ sendCh' = Send(IF ok THEN sendMCPResult(m, TRUE, "")
                            ELSE sendMCPResult(m, FALSE, "failed to call"))
    /\ mcpCalls' = [mcpCalls EXCEPT ![m] = "done"]
    /\ UNCHANGED <<ctxDone, closed, conn, connState, doneEpoch, sendEpoch,
                   doneClosed, envInfoSent, mainPc, attempt, delay, runErr, stopCloses, nCloses, sl, hb,
                   ticks, wire, taskVars>>
    /\ UNCHANGED <<permVars, fsVars, rd, lw, lo, zp, welcome, writeFailed, mcp, cfg, sums, sessInfo, web, lastWait>>

\* SpecCascade: the peer sends task.request, task.cancel and mcp.call
\* envelopes, and a signal can cancel the context of RunWithReconnect.
NextCascade ==
    \/ MainNext(TaskConns, MaxFailures)
    \/ TaskNext({OkRequest})
    \/ CancelNext
    \/ Signal
    \/ ReadMcpCall
    \/ \E m \in 1..MaxMcpCalls, ok \in BOOLEAN : handleMCPCall(m, ok)

SpecCascade == Init /\ [][NextCascade]_vars

InFlight == {e \in Execs : execs[e].pc \in {"add", "running"}}

\* C30: once the context given to RunWithReconnect is cancelled, the
\* context of every task execution and of every mcp.call in flight is
\* done; a step that handles a task.cancel changes the context of the
\* execution registered under that task id at most, and of no mcp.call.
C30_ContextsCascade ==
    /\ [](ctxDone => /\ \A e \in InFlight : TaskCtxDone(e)
                     /\ \A m \in McpCalls : mcpCalls[m] = "running" => McpCtxDone(m))
    /\ [][\A t \in TaskIds : CancelStep(t) =>
              /\ \A e \in Execs : e # runningTask[t] => (TaskCtxDone(e)' <=> TaskCtxDone(e))
              /\ \A m \in McpCalls : McpCtxDone(m)' <=> McpCtxDone(m)]_vars

\* C30 witness: two executions and an mcp.call in flight; a task.cancel
\* cancelled the first execution only, and then the signal cancelled the
\* context of RunWithReconnect.
C30_Witness ==
    /\ Len(execs) = 2
    /\ execs[1].pc = "running" /\ execs[1].calls = 1
    /\ execs[2].pc = "running" /\ execs[2].calls = 0
    /\ mcpCalls = <<"running">>
    /\ ctxDone

\* The executions whose goroutine is yet to start or is running.
Undrained == {e \in Execs : execs[e].pc \in {"handle", "add", "running"}}

\* C31: once the signal goroutine has cancelled the root context readLoop
\* reads and dispatches no further task.request, and when the signal
\* goroutine goes on to client.Close() because RunningTaskCount() was 0 or
\* WaitForTasks(30 s) returned true, no execution of a task.request read
\* before is running or yet to start.
C31_DrainComplete ==
    /\ [][ctxDone => Len(execs') = Len(execs)]_vars
    /\ [][(sigPc \in {"count", "wait30"} /\ sigPc' = "close") => Undrained = {}]_vars

\* SpecSync: sync_skill into a workspace where an earlier sync left
\* /w/d/.checksum, for archives that may hold an entry named .checksum.
SyncEntries ==
    [name : {<<N_a>>, <<N_checksum>>, <<DotDot, N_a>>}, abs : {FALSE}, dir : BOOLEAN]

InitSync ==
    /\ fs = (<<N_w, N_d, N_checksum>> :> RegularFile) @@ (<<N_w, N_l>> :> Link(<<N_w, N_d>>))
              @@ BaseFs
    /\ fsOp = "none" /\ fsPath = <<>> /\ fsRet = NoRet /\ fsErr = "nil" /\ fsReal = {}
    /\ PermIdle /\ SessInit
    /\ rd = NoRead /\ lw = NoWriter /\ lo = NoOutput /\ zp = NoZip
    /\ welcome = [k \in Conns |-> "none"] /\ writeFailed = [k \in Conns |-> FALSE]
    /\ mcp = NewClientManager /\ cfg = NoConfig /\ mcpCalls = <<>>
    /\ sessInfo = NoSessInfo /\ web = NoFetch /\ lastWait = 0
    /\ sums = (<<N_w, N_d, N_checksum>> :> "old")

NextSync ==
    \/ \E skillDir \in SkillDirs, zipOk \in BOOLEAN : SyncSkill(skillDir, zipOk)
    \/ \E e \in SyncEntries : UnzipEntry(e)
    \/ UnzipDone

SpecSync == InitSync /\ [][NextSync]_vars

\* The .checksum file of the skill directory, if there is one.
ChecksumPath == Append(zp.destReal, N_checksum)
HasChecksum == ChecksumPath \in DOMAIN fs /\ fs[ChecksumPath].type = "file"

\* C32: while a sync is unpacking, and after one that failed, the skill
\* directory holds no .checksum file, neither one with the checksum of the
\* request nor one of an earlier sync; after a sync that ended well it
\* holds the checksum of the request.
C32_ChecksumLast ==
    /\ zp.pc = "unpack" => ~HasChecksum
    /\ (zp.pc = "done" /\ zp.err # "nil" /\ zp.dest # <<>>) => ~HasChecksum
    /\ (zp.pc = "done" /\ zp.err = "nil") => (HasChecksum /\ sums[ChecksumPath] = "req")

\* SpecOrder: the peer sends task.cancel for the task T only after a
\* task.request for T, on the same connection.
T == CHOOSE t \in TaskIds : \A u \in TaskIds : t <= u

ReadCancelAfterRequest ==
    /\ \E e \in Execs : execs[e].task = T
    /\ ReadCancel(T)

NextOrder ==
    \/ MainNext(TaskConns, MaxFailures)
    \/ TaskNext({OkRequest})
    \/ ReadCancelAfterRequest
    \/ handleTaskCancel(T)

SpecOrder == Init /\ [][NextOrder]_vars

\* The execution of the first task.request for T.
FirstOfT == CHOOSE e \in Execs : execs[e].task = T /\ \A d \in Execs : execs[d].task = T => e <= d

\* C33: when every task.cancel for T, each read after the task.request
\* for T, has been handled, the context of the execution of that request
\* is cancelled, unless the execution had returned.
C33_CancelNotLost ==
    (nCancels > 0 /\ cancels[T] = 0) =>
        \/ TaskCtxDone(FirstOfT)
        \/ execs[FirstOfT].pc \in {"unregister", "wgDone", "done"}

\* C34: Bash starts a command only when, for each of its call expressions,
\* the last rule that matches it has the action "allow"; with any other
\* action string in that rule the command is not started.
C34_OnlyAllowAdmits ==
    (permPc = "ready" /\ bashCmd \in ParsedCommands /\ bashStarted) =>
        \A s \in CallTexts(bashCmd) :
            /\ MatchingRules(rules, s) # {}
            /\ rules[LastMatching(rules, s)].Action = ActionAllow

\* SpecSpecific: tables of allow/deny rules over "*" and three prefix
\* patterns of which each matches "ls -l": "l*", "ls*" and "ls *".
P_l_any == <<"l", "*">>
P_ls_star == <<"l", "s", "*">>

PrefixMaps ==
    UNION {[ks -> {ActionAllow, ActionDeny}] :
             ks \in {k \in SUBSET {P_star, P_l_any, P_ls_star, P_ls_any} :
                        Cardinality(k) <= MaxRules}}

InitSpecific ==
    /\ permPc = "new"
    /\ patterns \in PrefixMaps
    /\ rules = <<>>
    /\ bashCmd = NoCommand /\ bashErr = NoErr /\ bashStarted = FALSE /\ bashRes = NoRes
    /\ FsIdle /\ SessInit /\ LibIdle

SpecSpecific == InitSpecific /\ [][NextPerm]_vars

\* The rules of rs that are prefix patterns matching s, "*" apart.
PrefixRules(rs, s) ==
    {i \in MatchingRules(rs, s) :
        rs[i].Pattern # P_star /\ HasSuffix(rs[i].Pattern, <<"*">>)}

\* The rule i of rs is more specific than the rule j: the prefix of j is a
\* proper prefix of the prefix of i.
MoreSpecific(rs, i, j) ==
    /\ Len(rs[j].Pattern) < Len(rs[i].Pattern)
    /\ HasPrefix(rs[i].Pattern, TrimSuffix(rs[j].Pattern, <<"*">>))

\* C35: when two prefix patterns match a call expression and one is more
\* specific than the other, the less specific one does not decide: the
\* rule evaluateRules reports is not one that has a more specific rule
\* matching too.
C35_MoreSpecificWins ==
    permPc = "ready" =>
        \A s \in CallStrings : \A i, j \in PrefixRules(rules, s) :
            MoreSpecific(rules, i, j) =>
                evaluateRules(rules, s).pattern # rules[j].Pattern

\* C36: the session on which a caller runs its call was connected with the
\* settings of that caller's request.
C36_SessionOfItsSettings ==
    \A c \in Callers :
        mcp.callers[c].pc = "call" =>
            sessInfo.built[mcp.callers[c].sess] = sessInfo.want[c]

\* The sessions that are cached.
Cached == {mcp.sessions[s] : s \in Servers} \ {0}

\* ClientManager.Close: every cached session is closed and the cache
\* emptied.
ManagerClose ==
    /\ mcp.mu = 0
    /\ \E s \in Servers : mcp.sessions[s] # 0
    /\ sessInfo' = [sessInfo EXCEPT !.closed = @ \cup Cached]
    /\ mcp' = [mcp EXCEPT !.sessions = [s \in Servers |-> 0],
                          !.good = [s \in Servers |-> 0]]
    /\ UNCHANGED <<permVars, fsVars, sessVars, rd, lw, lo, zp, welcome, writeFailed, cfg, mcpCalls, sums, web, lastWait>>

\* SpecMcpClose: the callers of the manager and its Close.
NextMcpClose ==
    \/ NextMcp
    \/ ManagerClose

SpecMcpClose == Init /\ [][NextMcpClose]_vars

\* C37: invalidateSession, run for a failed call, removes from the cache
\* no session other than the one the call ran on, and every session that
\* was connected and is no longer cached has been closed.
C37_InvalidateOwnSession ==
    /\ [][\A c \in Callers :
              (mcp.callers[c].pc = "invalidate" /\ mcp'.callers[c].pc = "idle") =>
                  mcp.sessions[mcp.callers[c].server] \in {0, mcp.callers[c].sess}]_vars
    /\ [](\A n \in 1..mcp.made : n \notin Cached => n \in sessInfo.closed)

\* The directory skill_dir names, and the files the workspace held before
\* the sync, /w/l apart.
NamedDir == JoinAbs(root, zp.skillDir)
WorkspaceBefore == {p \in DOMAIN BaseFs : Under(p, root)}

\* C38: once sync_skill has removed and recreated its destination, every
\* file the workspace held whose path is not the named skill directory or
\* below it is there as it was.
C38_SyncSkillFrame ==
    zp.pc = "unpack" =>
        \A p \in WorkspaceBefore :
            ~Under(p, NamedDir) => (p \in DOMAIN fs /\ fs[p] = BaseFs[p])

\* SpecFetch: one WebFetch call, for every response of the model.
NextFetch ==
    \/ \E format \in {"", "text", "html"} : WebFetch(format)
    \/ \E outcome \in {"response", "timeout", "failed"}, r \in Responses :
          fetchURL(outcome, r)
    \/ WebFetchRead

SpecFetch == Init /\ [][NextFetch]_vars

\* C39: httpCtx is not cancelled before the body has been read, and a
\* response of at most maxResponseSize bytes that Do returned is returned
\* as content.
C39_BodyReadBeforeCancel ==
    /\ web.pc = "readResponseBody" => ~web.httpCtxDone
    /\ (web.pc = "done" /\ web.resp # NoResponse /\ web.resp.size <= maxResponseSize) =>
           (web.err = "nil" /\ web.len = web.resp.size)

\* C40: every dial but the first comes after a wait of at least
\* initialReconnectDelay since the dial before it, whether that dial failed
\* or gave a connection that was lost.
C40_WaitBetweenDials ==
    [][(mainPc = "connect" /\ mainPc' # "connect" /\ (conn > 0 \/ attempt > 0)) =>
           lastWait >= initialReconnectDelay]_vars

====
